---- MODULE Spec2Model ----
(***************************************************************************)
(* A model of ctrld's DNS loop detector (cmd/cli, src/unnamed/part_002)    *)
(* and of its client-info discovery table and lease-file watcher           *)
(* (src/internal/clientinfo).                                              *)
(*                                                                         *)
(* Strings are sequences of one-character strings, so that the string      *)
(* operations of the code (TrimSuffix, Cut, Fqdn) are computed character   *)
(* by character.                                                           *)
(***************************************************************************)
EXTENDS Integers, Sequences, FiniteSets, TLC

VARIABLES
    \* ---- loop detector (prog) ----
    loop,        \* p.loop: map uid -> bool (a function on the keys present)
    loopMu,      \* p.loopMu: "free" or the name of the holder
    ckPc,        \* position of the checkDnsLoop worker
    ckTodo,      \* keys of p.loop the range loop has not produced yet
    ckCur,       \* uid of the iteration in progress
    cycles,      \* number of checkDnsLoop cycles started
    crashed,     \* the runtime aborted the process (concurrent map access)
    dtPc,        \* position of the listener goroutine running detectLoop
    dtMsg,       \* the message handed to the detectLoop call in progress / last made
    dtUid,       \* uid computed by detectLoop from the question's name
    dtProbe,     \* the call in progress received the probe of the Resolve outstanding
    observed,    \* uids whose probe was seen by detectLoop during the current cycle
    \* ---- dispatcher (proxy) ----
    dsPc,        \* position of the dispatcher worker
    dsList,      \* candidate upstream list of the query being dispatched
    dsIdx,       \* index of the next candidate
    contacted,   \* candidates that were probed in the cache / sent the query
    skipped,     \* candidates that were filtered out
    flagAtWalk,  \* loop-table value of each candidate at the time it was walked
    \* ---- client-info table (clientinfo) ----
    dhcp,        \* the dhcp source: its four maps, its watcher, its selfIP
    host,        \* the machine: os.Hostname, the interfaces, router.SelfInterfaces
    files,       \* the lease files on disk: name -> content (absent: no file)
    clientInfoFiles, \* registry: lease file name -> format
    facts,       \* tables of the sources other than dhcp: <<source, kind, key, value>>
    cfg,         \* the discover_* settings and whether the UID has a client id
    table,       \* Table: the resolver lists and the sources created
    lastCall,    \* the last call made on the table or the watcher, with its result
    \* ---- lease-file watcher (dhcp.watchChanges) ----
    events,      \* d.watcher.Events: the filesystem events not handled yet
    \* ---- Table.RefreshLoop ----
    rlPc,        \* position of the goroutine running RefreshLoop
    rlIdx,       \* index of the next refresher of the tick being handled
    rlDone,      \* the refreshers refreshed for the last tick received
    tick,        \* timer.C holds a tick
    ticks,       \* number of ticks the ticker has sent
    stop,        \* stopCh was signalled
    quitClosed,  \* number of close(t.quitCh) executed
    \* ---- DoH / DoH3 resolver ----
    upstreams,   \* the configured upstreams of the DoH family
    transports,  \* per upstream: its HTTP transport and its HTTP/3 round-tripper
    platform,    \* runtime.GOOS, runtime.GOARCH and the distribution
    rsPc,        \* position of the dispatcher resolving a query over DoH
    rsIdx,       \* index of the upstream Resolve is called on next
    rsCtx,       \* what the query's context holds under ClientInfoCtxKey
    lastResolve, \* the last Resolve call made for the query, with its result
    \* ---- answer cache (dnscache) ----
    cache,       \* the cached entries, most recently used first
    now,         \* the clock
    added,       \* key -> value of the most recent Add with that key
    lastGet,     \* the Get that has just returned, with its result (none after
                 \* an Add or a clock tick)
    \* ---- proxy: one query from the policy's upstream list to its response ----
    pxPc,        \* "idle", "walk", "done"
    pxMsg,       \* the query: its ID and its question
    pxList,      \* the upstreams the policy returned, in order
    pxIdx,       \* position of the walk in pxList
    pxTrace,     \* what was done with each upstream walked over so far
    pxResp,      \* the response returned
    \* ---- configuration: policies, wildcards, upstream configs ----
    upc,         \* an UpstreamConfig
    inits,       \* the number of Init calls made on upc
    applied      \* the last function applied, with its arguments and result

loopVars == <<loop, loopMu, ckPc, ckTodo, ckCur, cycles, crashed,
              dtPc, dtMsg, dtUid, dtProbe, observed>>
dispVars == <<dsPc, dsList, dsIdx, contacted, skipped, flagAtWalk>>
tableVars == <<dhcp, host, files, clientInfoFiles, facts, cfg, table, lastCall>>
watchVars == <<events>>
refreshVars == <<rlPc, rlIdx, rlDone, tick, ticks, stop, quitClosed>>
dohVars == <<upstreams, transports, platform, rsPc, rsIdx, rsCtx, lastResolve>>
cacheVars == <<cache, now, added, lastGet>>
proxyVars == <<pxPc, pxMsg, pxList, pxIdx, pxTrace, pxResp>>
cfgVars == <<upc, inits, applied>>
vars == <<loopVars, dispVars, tableVars, watchVars, refreshVars, dohVars, cacheVars,
          proxyVars, cfgVars>>

(***************************************************************************)
(* Strings                                                                 *)
(***************************************************************************)
HasSuffix(s, suf) ==
    /\ Len(s) >= Len(suf)
    /\ SubSeq(s, Len(s) - Len(suf) + 1, Len(s)) = suf

HasPrefix(s, pre) ==
    /\ Len(s) >= Len(pre)
    /\ SubSeq(s, 1, Len(pre)) = pre

TrimSuffix(s, suf) ==
    IF HasSuffix(s, suf) THEN SubSeq(s, 1, Len(s) - Len(suf)) ELSE s

\* dns.Fqdn of a name without escapes: the name with one trailing dot.
Fqdn(s) == IF HasSuffix(s, <<".">>) THEN s ELSE s \o <<".">>

(***************************************************************************)
(* Loop detector                                                           *)
(***************************************************************************)
loopTestDomain == <<".", "t", "e", "s", "t">>
loopTestQtype == 16
OtherQtypes == {1}

MaxCycles == 2

\* UIDs of p.cfg.Upstream.
CfgUIDs == {<<"a">>, <<"b">>}
\* A UID that no configured upstream has.
UnknownUID == <<"c">>

Question(name, qtype) == [Name |-> name, Qtype |-> qtype]

loopTestMsg(uid) ==
    [Question |-> <<Question(Fqdn(uid \o loopTestDomain), loopTestQtype)>>]

\* Inbound messages a listener may receive: the probes, names that differ
\* from a probe's, another qtype, and question counts other than one.
InboundNames ==
    {Fqdn(u \o loopTestDomain) : u \in CfgUIDs \cup {UnknownUID}}
    \cup UNION {{ u \o loopTestDomain,             \* <uid>.test
                  u \o <<".">>,                    \* <uid>.
                  u \o <<".", "x", ".">> }         \* <uid>.x.
                : u \in {CHOOSE x \in CfgUIDs : TRUE}}

InboundMsgs ==
    {[Question |-> <<Question(n, loopTestQtype)>>] : n \in InboundNames}
    \cup {[Question |-> <<Question(Fqdn(u \o loopTestDomain), t)>>] :
            u \in {CHOOSE x \in CfgUIDs : TRUE}, t \in OtherQtypes}
    \cup {[Question |-> <<>>]}
    \cup {[Question |-> <<Question(Fqdn(u \o loopTestDomain), loopTestQtype),
                          Question(Fqdn(u \o loopTestDomain), loopTestQtype)>>]
          : u \in {CHOOSE x \in CfgUIDs : TRUE}}

\* p.loop[uid] of a Go map: the zero value for a key that is absent.
MapGet(m, k) == IF k \in DOMAIN m THEN m[k] ELSE FALSE

MapSet(m, k, v) == [x \in DOMAIN m \cup {k} |-> IF x = k THEN v ELSE m[x]]

\* A variant that reports an upstream without an entry as looping.
isLoopAbsentTrue(uid) == IF uid \in DOMAIN loop THEN loop[uid] ELSE TRUE

isLoop(uid) == MapGet(loop, uid)

\* detectLoop up to the lock: the early returns, and the uid it computes.
detectLoopPasses(msg) ==
    /\ Len(msg.Question) = 1
    /\ msg.Question[1].Qtype = loopTestQtype

\* A variant that forgets to cut the test domain off the name.
detectLoopUidKeepsDomain(msg) == TrimSuffix(msg.Question[1].Name, <<".">>)

detectLoopUid(msg) ==
    TrimSuffix(TrimSuffix(msg.Question[1].Name, <<".">>), loopTestDomain)

\* A variant that stores the negation of the flag found.
detectLoopStoreToggle(m, uid) ==
    IF uid \in DOMAIN m THEN MapSet(m, uid, ~m[uid]) ELSE m

\* "if _, loop := p.loop[uid]; loop { p.loop[uid] = loop }"
detectLoopStore(m, uid) ==
    IF uid \in DOMAIN m THEN MapSet(m, uid, TRUE) ELSE m

\* checkDnsLoop, lines 58-64: every configured upstream is (re)entered as false.
RECURSIVE checkDnsLoopReset(_, _)
checkDnsLoopReset(m, uids) ==
    IF uids = {} THEN m
    ELSE LET u == CHOOSE x \in uids : TRUE
         IN  checkDnsLoopReset(MapSet(m, u, FALSE), uids \ {u})

EmptyMap == [x \in {} |-> FALSE]
NoProbe == <<0, <<>>>>
NoMsg == [Question |-> <<>>]

InitLoop ==
    /\ loop = EmptyMap
    /\ loopMu = "free"
    /\ ckPc = "idle"
    /\ ckTodo = {}
    /\ ckCur = <<>>
    /\ cycles = 0
    /\ crashed = FALSE
    /\ dtPc = "idle"
    /\ dtMsg = NoMsg
    /\ dtUid = <<>>
    /\ dtProbe = NoProbe
    /\ observed = {}

\* checkDnsLoop, lines 57-64: under loopMu every configured upstream is entered
\* in the table as false; the range loop of line 66 then starts.
CheckStart ==
    /\ ~crashed
    /\ ckPc = "idle"
    /\ cycles < MaxCycles
    /\ loopMu = "free"
    /\ loop' = checkDnsLoopReset(loop, CfgUIDs)
    /\ ckTodo' = DOMAIN loop'
    /\ ckPc' = "range"
    /\ cycles' = cycles + 1
    /\ observed' = {}
    /\ UNCHANGED <<loopMu, ckCur, crashed, dtPc, dtMsg, dtUid, dtProbe>>
    /\ UNCHANGED <<dispVars, tableVars, watchVars, refreshVars, dohVars, cacheVars, proxyVars, cfgVars>>

\* Line 66, one step of "for uid := range p.loop", made without loopMu; then
\* lines 67-73: NewResolver either fails (continue) or the probe is sent.
CheckRangeNext ==
    /\ ~crashed
    /\ ckPc = "range"
    /\ \E uid \in ckTodo, ok \in BOOLEAN :
        /\ ckTodo' = ckTodo \ {uid}
        /\ ckCur' = uid
        /\ ckPc' = IF ok THEN "resolving" ELSE "range"
    /\ UNCHANGED <<loop, loopMu, cycles, crashed, dtPc, dtMsg, dtUid, dtProbe, observed>>
    /\ UNCHANGED <<dispVars, tableVars, watchVars, refreshVars, dohVars, cacheVars, proxyVars, cfgVars>>

\* The range of line 66 reads the map while detectLoop is inside its locked
\* write: the Go runtime may abort with "concurrent map iteration and map write".
CheckRangeCrash ==
    /\ ~crashed
    /\ ckPc = "range"
    /\ loopMu = "detect"
    /\ crashed' = TRUE
    /\ UNCHANGED <<loop, loopMu, ckPc, ckTodo, ckCur, cycles, dtPc, dtMsg, dtUid,
                   dtProbe, observed>>
    /\ UNCHANGED <<dispVars, tableVars, watchVars, refreshVars, dohVars, cacheVars, proxyVars, cfgVars>>

\* Line 74: Resolve returns (an answer, an error or a timeout).
CheckResolveReturn ==
    /\ ~crashed
    /\ ckPc = "resolving"
    /\ ckPc' = "range"
    /\ UNCHANGED <<loop, loopMu, ckTodo, ckCur, cycles, crashed, dtPc, dtMsg, dtUid,
                   dtProbe, observed>>
    /\ UNCHANGED <<dispVars, tableVars, watchVars, refreshVars, dohVars, cacheVars, proxyVars, cfgVars>>

\* Lines 77-78: the range is exhausted, the cycle ends; checkDnsLoopTicker
\* waits for the next tick.
CheckEnd ==
    /\ ~crashed
    /\ ckPc = "range"
    /\ ckTodo = {}
    /\ ckPc' = "idle"
    /\ UNCHANGED <<loop, loopMu, ckTodo, ckCur, cycles, crashed, dtPc, dtMsg, dtUid,
                   dtProbe, observed>>
    /\ UNCHANGED <<dispVars, tableVars, watchVars, refreshVars, dohVars, cacheVars, proxyVars, cfgVars>>

\* detectLoop, lines 31-37: a message with a question count other than one or
\* with a qtype other than TXT returns before the table is touched.
DetectLoopIgnore ==
    /\ ~crashed
    /\ dtPc = "idle"
    /\ \E msg \in InboundMsgs :
        /\ ~detectLoopPasses(msg)
        /\ dtMsg' = msg
    /\ UNCHANGED <<loop, loopMu, ckPc, ckTodo, ckCur, cycles, crashed, dtPc, dtUid,
                   dtProbe, observed>>
    /\ UNCHANGED <<dispVars, tableVars, watchVars, refreshVars, dohVars, cacheVars, proxyVars, cfgVars>>

\* detectLoop, lines 38-40: the uid is cut out of the name and loopMu is taken.
\* dtProbe notes whether the message is the probe of the Resolve outstanding.
DetectLoopLock ==
    /\ ~crashed
    /\ dtPc = "idle"
    /\ loopMu = "free"
    /\ \E msg \in InboundMsgs :
        /\ detectLoopPasses(msg)
        /\ dtMsg' = msg
        /\ dtUid' = detectLoopUid(msg)
        /\ dtProbe' = IF ckPc = "resolving" /\ msg = loopTestMsg(ckCur)
                      THEN <<cycles, ckCur>> ELSE NoProbe
    /\ loopMu' = "detect"
    /\ dtPc' = "locked"
    /\ UNCHANGED <<loop, ckPc, ckTodo, ckCur, cycles, crashed, observed>>
    /\ UNCHANGED <<dispVars, tableVars, watchVars, refreshVars, dohVars, cacheVars, proxyVars, cfgVars>>

\* detectLoop, lines 41-44: the store, and the unlock.
DetectLoopStoreUnlock ==
    /\ ~crashed
    /\ dtPc = "locked"
    /\ loop' = detectLoopStore(loop, dtUid)
    /\ loopMu' = "free"
    /\ dtPc' = "idle"
    /\ observed' = IF dtProbe[1] = cycles /\ ckPc # "idle"
                   THEN observed \cup {dtProbe[2]} ELSE observed
    /\ dtProbe' = NoProbe
    /\ dtMsg' = NoMsg
    /\ dtUid' = <<>>
    /\ UNCHANGED <<ckPc, ckTodo, ckCur, cycles, crashed>>
    /\ UNCHANGED <<dispVars, tableVars, watchVars, refreshVars, dohVars, cacheVars, proxyVars, cfgVars>>

(***************************************************************************)
(* Dispatcher: the walk over the candidate upstreams of one query.         *)
(***************************************************************************)
MaxUpstreams == 2

\* The ordered upstream lists a policy may produce: no upstream twice.
UpstreamLists ==
    {l \in UNION {[1..n -> CfgUIDs \cup {UnknownUID}] : n \in 1..MaxUpstreams} :
        \A i, j \in 1..Len(l) : i # j => l[i] # l[j]}

InitDisp ==
    /\ dsPc = "idle"
    /\ dsList = <<>>
    /\ dsIdx = 1
    /\ contacted = {}
    /\ skipped = {}
    /\ flagAtWalk = EmptyMap

\* A query arrives and the policy yields its ordered upstream list.
DispatchStart ==
    /\ ~crashed
    /\ dsPc = "idle"
    /\ \E l \in UpstreamLists : dsList' = l
    /\ dsIdx' = 1
    /\ contacted' = {}
    /\ skipped' = {}
    /\ flagAtWalk' = EmptyMap
    /\ dsPc' = "walk"
    /\ UNCHANGED <<loopVars, tableVars, watchVars, refreshVars, dohVars, cacheVars, proxyVars, cfgVars>>

\* The next candidate: isLoop (under loopMu) decides whether it is skipped;
\* otherwise the cache is probed and, on a miss, the query is sent. A hit or
\* an answer ends the walk, a failure advances to the next candidate.
DispatchWalk ==
    /\ ~crashed
    /\ dsPc = "walk"
    /\ dsIdx <= Len(dsList)
    /\ loopMu = "free"
    /\ LET u == dsList[dsIdx]
       IN  /\ flagAtWalk' = MapSet(flagAtWalk, u, u \in DOMAIN loop /\ loop[u])
           /\ IF isLoop(u)
              THEN /\ skipped' = skipped \cup {u}
                   /\ dsIdx' = dsIdx + 1
                   /\ UNCHANGED <<contacted, dsPc>>
              ELSE /\ contacted' = contacted \cup {u}
                   /\ UNCHANGED skipped
                   /\ \E answered \in BOOLEAN :
                        IF answered
                        THEN dsPc' = "done" /\ UNCHANGED dsIdx
                        ELSE dsIdx' = dsIdx + 1 /\ UNCHANGED dsPc
    /\ UNCHANGED dsList
    /\ UNCHANGED <<loopVars, tableVars, watchVars, refreshVars, dohVars, cacheVars, proxyVars, cfgVars>>

\* Every candidate was skipped or failed: SERVFAIL goes back to the client.
DispatchServfail ==
    /\ ~crashed
    /\ dsPc = "walk"
    /\ dsIdx > Len(dsList)
    /\ dsPc' = "done"
    /\ UNCHANGED <<dsList, dsIdx, contacted, skipped, flagAtWalk>>
    /\ UNCHANGED <<loopVars, tableVars, watchVars, refreshVars, dohVars, cacheVars, proxyVars, cfgVars>>

\* The response is written and the worker is free for the next query.
DispatchReturn ==
    /\ ~crashed
    /\ dsPc = "done"
    /\ dsPc' = "idle"
    /\ dsList' = <<>>
    /\ dsIdx' = 1
    /\ contacted' = {}
    /\ skipped' = {}
    /\ flagAtWalk' = EmptyMap
    /\ UNCHANGED <<loopVars, tableVars, watchVars, refreshVars, dohVars, cacheVars, proxyVars, cfgVars>>

(***************************************************************************)
(* Client-info discovery: the dhcp source (internal/clientinfo/dhcp.go)    *)
(***************************************************************************)
Empty == <<>>                      \* the empty string

\* A variant of normalizeIP that keeps the interface suffix.
normalizeIPKeepsIface(in) == in

\* strings.Cut(s, c): the text before the first c, and whether c occurs.
CutFound(s, c) == \E i \in 1..Len(s) : s[i] = c
CutBefore(s, c) ==
    IF CutFound(s, c)
    THEN LET i == CHOOSE k \in 1..Len(s) :
                    s[k] = c /\ \A j \in 1..(k - 1) : s[j] # c
         IN  SubSeq(s, 1, i - 1)
    ELSE s

normalizeIP(in) == IF CutFound(in, "%") THEN CutBefore(in, "%") ELSE in

normalizeHostname(name) == IF CutFound(name, ".") THEN CutBefore(name, ".") ELSE name

Lower(c) == CASE c = "A" -> "a" [] c = "B" -> "b" [] OTHER -> c
ToLower(s) == [i \in 1..Len(s) |-> Lower(s[i])]

RECURSIVE TrimRight(_, _)
TrimRight(s, cutset) ==
    IF Len(s) > 0 /\ s[Len(s)] \in cutset
    THEN TrimRight(SubSeq(s, 1, Len(s) - 1), cutset) ELSE s

RECURSIVE TrimLeft(_, _)
TrimLeft(s, cutset) ==
    IF Len(s) > 0 /\ s[1] \in cutset THEN TrimLeft(Tail(s), cutset) ELSE s

Trim(s, cutset) == TrimLeft(TrimRight(s, cutset), cutset)

\* The texts of the model. A MAC is written with one letter, an IP with one
\* digit; the loopback addresses are written in full.
Loopback4 == <<"1", "2", "7", ".", "0", ".", "0", ".", "1">>
Loopback6 == <<":", ":", "1">>
V4IPs == {<<"1">>, <<"2">>, <<"8">>, <<"9">>, Loopback4}
V6IPs == {<<"6">>, Loopback6}
\* net.ParseIP / netip.ParseAddr succeed on these texts and on no other.
ParseIP(s) == s \in V4IPs \cup V6IPs
\* net.ParseMAC succeeds on these texts and on no other.
ParseMAC(s) == s \in {<<"a">>, <<"b">>, <<"A">>, <<"B">>, <<"e">>, <<"f">>}
\* ip.To4() != nil
To4(ip) == ip \in V4IPs

Dnsmasq == "dnsmasq"
IscDhcpd == "isc-dhcpd"
\* The zero value of ctrld.LeaseFileFormat.
NoFormat == ""

\* sync.Map Load with the "" of a missing key (LookupIP, LookupMac, ...).
Load(m, k) == IF k \in DOMAIN m THEN m[k] ELSE Empty
Store(m, k, v) == [x \in DOMAIN m \cup {k} |-> IF x = k THEN v ELSE m[x]]
LoadOrStore(m, k, v) == IF k \in DOMAIN m THEN m ELSE Store(m, k, v)

NewDhcp(selfIP) ==
    [mac2name |-> EmptyMap, ip2name |-> EmptyMap, ip |-> EmptyMap, mac |-> EmptyMap,
     watcher |-> FALSE, watched |-> {}, selfIP |-> selfIP]

dhcpLookupIP(d, mac) == Load(d.ip, mac)
dhcpLookupMac(d, ip) == Load(d.mac, ip)
dhcpLookupHostnameByIP(d, ip) == Load(d.ip2name, ip)
dhcpLookupHostnameByMac(d, mac) == Load(d.mac2name, mac)

\* dhcp.List: the values of d.ip and the keys of d.mac (as a set: ListClients
\* keys its clients by these strings).
dhcpList(d) == {d.ip[m] : m \in DOMAIN d.ip} \cup DOMAIN d.mac

\* A variant of the dnsmasq callback that stores the hostname "*" like any
\* other.
dnsmasqLineStoresStar(d, fields) ==
    IF Len(fields) < 4 THEN d
    ELSE LET mac == fields[2] IN
         IF ~ParseMAC(mac) THEN d
         ELSE LET ip0 == normalizeIP(fields[3])
                  ip == IF ParseIP(ip0) THEN ip0 ELSE Empty
                  name == normalizeHostname(fields[4])
              IN  [d EXCEPT !.mac = Store(@, ip, mac), !.ip = Store(@, mac, ip),
                            !.mac2name = Store(@, mac, name),
                            !.ip2name = Store(@, ip, name)]

\* The callback of dnsmasqReadClientInfoReader on one line, given as its
\* whitespace-separated fields (bytes.Fields).
dnsmasqLine(d, fields) ==
    IF Len(fields) < 4 THEN d
    ELSE LET mac == fields[2] IN
         IF ~ParseMAC(mac) THEN d
         ELSE LET ip0 == normalizeIP(fields[3])
                  ip == IF ParseIP(ip0) THEN ip0 ELSE Empty
                  d1 == [d EXCEPT !.mac = Store(@, ip, mac), !.ip = Store(@, mac, ip)]
                  hostname == fields[4]
              IN  IF hostname = <<"*">> THEN d1
                  ELSE LET name == normalizeHostname(hostname)
                       IN  [d1 EXCEPT !.mac2name = Store(@, mac, name),
                                      !.ip2name = Store(@, ip, name)]

\* lineread.Reader over the first n lines of the file (n < Len(lines) when the
\* read fails part-way).
RECURSIVE dnsmasqReadClientInfoReader(_, _, _)
dnsmasqReadClientInfoReader(d, lines, n) ==
    IF n = 0 THEN d
    ELSE dnsmasqLine(dnsmasqReadClientInfoReader(d, lines, n - 1), lines[n])

KwLease == <<"l", "e", "a", "s", "e">>
KwHardware == <<"h", "a", "r", "d", "w", "a", "r", "e">>
KwEthernet == <<"e", "t", "h", "e", "r", "n", "e", "t">>
KwClientHostname == <<"c", "l", "i", "e", "n", "t", "-", "h", "o", "s", "t", "n", "a", "m", "e">>

\* One turn of the scanner loop of iscDHCPReadClientInfoReader; st holds the
\* table and the three locals ip, mac, hostname. A line is given as its
\* fields (strings.Fields); it starts with "}" when its first field does.
iscLine(st, fields) ==
    IF Len(fields) >= 1 /\ HasPrefix(fields[1], <<"}">>)
    THEN LET d1 == [st.d EXCEPT !.mac = Store(@, st.ip, st.mac),
                                !.ip = Store(@, st.mac, st.ip)]
         IN  IF st.hostname # Empty /\ st.hostname # <<"*">>
             THEN [d |-> [d1 EXCEPT
                            !.mac2name = Store(@, st.mac, normalizeHostname(st.hostname)),
                            !.ip2name = Store(@, st.ip, st.hostname)],
                   ip |-> Empty, mac |-> Empty, hostname |-> Empty]
             ELSE [st EXCEPT !.d = d1]
    ELSE IF Len(fields) < 2 THEN st
    ELSE IF fields[1] = KwLease
         THEN LET ip0 == normalizeIP(ToLower(fields[2]))
              IN  [st EXCEPT !.ip = IF ParseIP(ip0) THEN ip0 ELSE Empty]
    ELSE IF fields[1] = KwHardware
         THEN IF Len(fields) >= 3
              THEN LET mac0 == ToLower(TrimRight(fields[3], {";"}))
                   IN  [st EXCEPT !.mac = IF ParseMAC(mac0) THEN mac0 ELSE Empty]
              ELSE st
    ELSE IF fields[1] = KwClientHostname
         THEN [st EXCEPT !.hostname = Trim(fields[2], {"\"", ";"})]
    ELSE st

RECURSIVE iscScan(_, _, _)
iscScan(st, lines, n) ==
    IF n = 0 THEN st ELSE iscLine(iscScan(st, lines, n - 1), lines[n])

\* iscDHCPReadClientInfoReader over the first n lines the scanner delivers.
iscDHCPReadClientInfoReader(d, lines, n) ==
    iscScan([d |-> d, ip |-> Empty, mac |-> Empty, hostname |-> Empty], lines, n).d

\* The outcome of the I/O of one read: the open fails although the file is
\* there, or the read fails before line readErrAt (0: no read error).
NoIOError == [openErr |-> FALSE, readErrAt |-> 0]

Min(a, b) == IF a < b THEN a ELSE b

\* A variant of readLeaseFile that empties the four maps before it reads.
readLeaseFileFromScratch(d, fs, name, format, io) ==
    LET d0 == [d EXCEPT !.mac2name = EmptyMap, !.ip2name = EmptyMap,
                        !.ip = EmptyMap, !.mac = EmptyMap]
    IN  IF format \notin {Dnsmasq, IscDhcpd} THEN [d |-> d0, err |-> "unsupported"]
        ELSE IF name \notin DOMAIN fs THEN [d |-> d0, err |-> "notexist"]
        ELSE IF io.openErr THEN [d |-> d0, err |-> "open"]
        ELSE LET lines == fs[name]
                 n == IF io.readErrAt = 0 THEN Len(lines)
                      ELSE Min(io.readErrAt - 1, Len(lines))
             IN  IF format = Dnsmasq
                 THEN [d |-> dnsmasqReadClientInfoReader(d0, lines, n),
                       err |-> IF io.readErrAt = 0 THEN "nil" ELSE "read"]
                 ELSE [d |-> iscDHCPReadClientInfoReader(d0, lines, n), err |-> "nil"]

\* readLeaseFile, with dnsmasqReadClientInfoFile / iscDHCPReadClientInfoFile:
\* the table after the read and the error returned. The scanner of the ISC
\* reader stops at a read error and nil is returned all the same.
readLeaseFile(d, fs, name, format, io) ==
    IF format \notin {Dnsmasq, IscDhcpd} THEN [d |-> d, err |-> "unsupported"]
    ELSE IF name \notin DOMAIN fs THEN [d |-> d, err |-> "notexist"]
    ELSE IF io.openErr THEN [d |-> d, err |-> "open"]
    ELSE LET lines == fs[name]
             n == IF io.readErrAt = 0 THEN Len(lines)
                  ELSE Min(io.readErrAt - 1, Len(lines))
         IN  IF format = Dnsmasq
             THEN [d |-> dnsmasqReadClientInfoReader(d, lines, n),
                   err |-> IF io.readErrAt = 0 THEN "nil" ELSE "read"]
             ELSE [d |-> iscDHCPReadClientInfoReader(d, lines, n), err |-> "nil"]

\* os.IsNotExist(err)
IsNotExist(err) == err = "notexist"

\* dhcp.addLeaseFile: the table, the registry and the error returned; a read
\* error comes back wrapped ("could not read lease file: %w").
addLeaseFile(d, reg, fs, name, format, io) ==
    IF ~d.watcher THEN [d |-> d, reg |-> reg, err |-> "nil"]
    ELSE LET r == readLeaseFile(d, fs, name, format, io)
         IN  IF r.err # "nil"
             THEN [d |-> r.d, reg |-> reg, err |-> "wrapped"]
             ELSE [d |-> [r.d EXCEPT !.watched = @ \cup {name}],
                   reg |-> Store(reg, name, format), err |-> "nil"]

\* addSelf, lines 275-297: the addresses of one interface. st holds the table
\* and the local "found".
RECURSIVE addSelfAddrs(_, _, _, _, _)
addSelfAddrs(st, mac, addrs, hostname, i) ==
    IF i > Len(addrs) \/ st.found THEN st
    ELSE IF ~addrs[i].ipnet THEN addSelfAddrs(st, mac, addrs, hostname, i + 1)
    ELSE LET ip == addrs[i].ip
             loopback == IF To4(ip) THEN Loopback4 ELSE Loopback6
             d1 == [st.d EXCEPT
                      !.mac = Store(Store(@, ip, mac), loopback, mac),
                      !.ip = Store(@, mac, ip),
                      !.mac2name = Store(@, mac, hostname),
                      !.ip2name = Store(@, ip, hostname)]
         IN  addSelfAddrs([d |-> d1, found |-> ip = st.d.selfIP],
                          mac, addrs, hostname, i + 1)

\* addSelf, lines 268-298: interfaces.ForeachInterface.
RECURSIVE addSelfForeach(_, _, _, _)
addSelfForeach(st, ifaces, hostname, i) ==
    IF i > Len(ifaces) THEN st
    ELSE IF ifaces[i].mac = Empty THEN addSelfForeach(st, ifaces, hostname, i + 1)
    ELSE addSelfForeach(addSelfAddrs(st, ifaces[i].mac, ifaces[i].addrs, hostname, 1),
                        ifaces, hostname, i + 1)

\* addSelf, lines 305-315: the addresses of one router interface.
RECURSIVE addSelfRouterAddrs(_, _, _, _, _)
addSelfRouterAddrs(d, mac, addrs, hostname, i) ==
    IF i > Len(addrs) THEN d
    ELSE IF ~addrs[i].ipnet THEN addSelfRouterAddrs(d, mac, addrs, hostname, i + 1)
    ELSE LET ip == addrs[i].ip
         IN  addSelfRouterAddrs(
                [d EXCEPT !.mac = LoadOrStore(@, ip, mac),
                          !.ip = LoadOrStore(@, mac, ip),
                          !.ip2name = Store(@, ip, hostname)],
                mac, addrs, hostname, i + 1)

\* addSelf, lines 299-316: router.SelfInterfaces; an interface without a MAC
\* ends the function.
RECURSIVE addSelfRouter(_, _, _, _)
addSelfRouter(d, ifaces, hostname, i) ==
    IF i > Len(ifaces) THEN d
    ELSE IF ifaces[i].mac = Empty THEN d
    ELSE addSelfRouter(
            addSelfRouterAddrs([d EXCEPT !.mac2name = Store(@, ifaces[i].mac, hostname)],
                               ifaces[i].mac, ifaces[i].addrs, hostname, 1),
            ifaces, hostname, i + 1)

\* dhcp.addSelf on machine h.
addSelf(d, h) ==
    IF h.hostnameErr THEN d
    ELSE LET hostname == normalizeHostname(h.hostname)
             d0 == [d EXCEPT !.ip2name = Store(Store(@, Loopback4, hostname),
                                               Loopback6, hostname)]
             st == addSelfForeach([d |-> d0, found |-> FALSE], h.ifaces, hostname, 1)
         IN  addSelfRouter(st.d, h.selfIfaces, hostname, 1)

\* dhcp.init, lines 39-42: the registered files, in the order the range over
\* clientInfoFiles produces them; the errors are ignored.
RECURSIVE initLeaseFiles(_, _, _, _)
initLeaseFiles(r, fs, order, i) ==
    IF i > Len(order) THEN r
    ELSE LET a == addLeaseFile(r.d, r.reg, fs, order[i], r.reg[order[i]], NoIOError)
         IN  initLeaseFiles([d |-> a.d, reg |-> a.reg], fs, order, i + 1)

\* dhcp.init: fsnotify.NewWatcher fails, or addSelf and the lease files.
dhcpInit(d, h, reg, fs, watcherErr, order) ==
    IF watcherErr THEN [d |-> d, reg |-> reg, err |-> "watcher"]
    ELSE LET r == initLeaseFiles([d |-> [addSelf(d, h) EXCEPT !.watcher = TRUE],
                                  reg |-> reg], fs, order, 1)
         IN  [d |-> r.d, reg |-> r.reg, err |-> "nil"]

(***************************************************************************)
(* Client-info discovery: the Table                                        *)
(***************************************************************************)
\* The names of the sources (their String()).
Merlin == "merlin"
Hosts == "hosts"
Dhcp == "dhcp"
Arp == "arp"
Ptr == "ptr"
Mdns == "mdns"
Vni == "vni"
Sources == {Merlin, Hosts, Dhcp, Arp, Ptr, Mdns, Vni}

\* The table of a source other than dhcp is a set of entries
\* <<source, kind, key, value>>, kind one of "ip2name", "mac2name", "mac"
\* (ip -> mac), "ip" (mac -> ip), with one value per key. A source that was not
\* created, or whose initialisation failed, holds nothing.
SrcFacts(t, f, src) ==
    IF src \in t.created \ t.failed THEN {x \in f : x[1] = src} ELSE {}

FactLookup(t, f, src, kind, key) ==
    LET hits == {x \in SrcFacts(t, f, src) : x[2] = kind /\ x[3] = key}
    IN  IF hits = {} THEN Empty ELSE (CHOOSE x \in hits : TRUE)[4]

FactKeys(t, f, src, kind) == {x[3] : x \in {y \in SrcFacts(t, f, src) : y[2] = kind}}
FactValues(t, f, src, kind) == {x[4] : x \in {y \in SrcFacts(t, f, src) : y[2] = kind}}

\* r.LookupIP, r.LookupMac, r.LookupHostnameByIP, r.LookupHostnameByMac, r.List
\* of resolver r: the dhcp source's own methods, or the table of another source.
srcLookupIP(t, d, f, r, mac) ==
    IF r = Dhcp THEN dhcpLookupIP(d, mac) ELSE FactLookup(t, f, r, "ip", mac)
srcLookupMac(t, d, f, r, ip) ==
    IF r = Dhcp THEN dhcpLookupMac(d, ip) ELSE FactLookup(t, f, r, "mac", ip)
\* ptrDiscover: its cache of names, and LookupHostnameByIP, which on a cache
\* miss asks the DNS server for the PTR record ("remote": what the server
\* would answer) and caches the answer.
lookupHostnameFromCache(t, f, ip) == FactLookup(t, f, Ptr, "ip2name", ip)
ptrLookupHostnameByIP(t, f, ip) ==
    IF lookupHostnameFromCache(t, f, ip) # Empty
    THEN lookupHostnameFromCache(t, f, ip)
    ELSE FactLookup(t, f, Ptr, "remote", ip)

srcLookupHostnameByIP(t, d, f, r, ip) ==
    IF r = Dhcp THEN dhcpLookupHostnameByIP(d, ip)
    ELSE IF r = Ptr THEN ptrLookupHostnameByIP(t, f, ip)
    ELSE FactLookup(t, f, r, "ip2name", ip)
srcLookupHostnameByMac(t, d, f, r, mac) ==
    IF r = Dhcp THEN dhcpLookupHostnameByMac(d, mac)
    ELSE FactLookup(t, f, r, "mac2name", mac)
srcList(t, d, f, r) ==
    IF r = Dhcp THEN dhcpList(d)
    ELSE FactKeys(t, f, r, "mac") \cup FactValues(t, f, r, "ip")
         \cup FactKeys(t, f, r, "ip2name")

NewTable ==
    [inited |-> FALSE, ipResolvers |-> <<>>, macResolvers |-> <<>>,
     hostnameResolvers |-> <<>>, refreshers |-> <<>>,
     created |-> {}, failed |-> {}, watchers |-> {}]

AppendIf(seq, cond, x) == IF cond THEN Append(seq, x) ELSE seq

\* Table.init, lines 450-525, with the Merlin block of lines 454-462 either
\* where the code has it (first) or after the VPN block (merlinFirst false).
tableInitOrder(c, fail, merlinFirst) ==
    LET mer == c.dhcp \/ c.arp
        ok(src) == src \notin fail
        h1 == AppendIf(<<>>, merlinFirst /\ mer /\ ok(Merlin), Merlin)
        h2 == AppendIf(h1, c.hosts /\ ok(Hosts), Hosts)
        h3 == AppendIf(h2, c.dhcp /\ ok(Dhcp), Dhcp)
        h4 == AppendIf(h3, c.ptr /\ ok(Ptr), Ptr)
        h5 == AppendIf(h4, c.mdns /\ ok(Mdns), Mdns)
        h6 == AppendIf(h5, mer, Vni)
        h7 == AppendIf(h6, ~merlinFirst /\ mer /\ ok(Merlin), Merlin)
        i1 == AppendIf(<<>>, c.dhcp /\ ok(Dhcp), Dhcp)
        i2 == AppendIf(i1, c.arp /\ ok(Arp), Arp)
        r1 == AppendIf(<<>>, mer /\ ok(Merlin), Merlin)
        r2 == AppendIf(r1, c.hosts /\ ok(Hosts), Hosts)
        r3 == AppendIf(r2, c.arp /\ ok(Arp), Arp)
        r4 == AppendIf(r3, c.ptr /\ ok(Ptr), Ptr)
        made == {src \in Sources :
                   \/ src \in {Merlin, Vni} /\ mer
                   \/ src = Hosts /\ c.hosts
                   \/ src = Dhcp /\ c.dhcp
                   \/ src = Arp /\ c.arp
                   \/ src = Ptr /\ c.ptr
                   \/ src = Mdns /\ c.mdns}
    IN  [inited |-> TRUE, ipResolvers |-> i2, macResolvers |-> i2,
         hostnameResolvers |-> h7, refreshers |-> r4,
         created |-> made, failed |-> made \cap (fail \ {Vni}),
         watchers |-> {src \in {Hosts, Dhcp} : src \in made}]

\* Table.init, lines 439-448: a custom client id makes self-discovery the
\* only source.
tableInitClientID ==
    [inited |-> TRUE, ipResolvers |-> <<Dhcp>>, macResolvers |-> <<Dhcp>>,
     hostnameResolvers |-> <<Dhcp>>, refreshers |-> <<>>,
     created |-> {Dhcp}, failed |-> {}, watchers |-> {}]

\* A variant that registers the router-vendor hook last.
tableInitMerlinLast(c, fail) ==
    IF c.customClientID THEN tableInitClientID ELSE tableInitOrder(c, fail, FALSE)

\* A variant of Table.init that registers a source although its
\* initialisation failed.
tableInitKeepsFailed(c, fail) ==
    IF c.customClientID THEN tableInitClientID
    ELSE [tableInitOrder(c, {}, TRUE) EXCEPT !.failed = tableInitOrder(c, fail, TRUE).failed]

\* A variant of Table.init without the custom client id branch.
tableInitIgnoresClientID(c, fail) == tableInitOrder(c, fail, TRUE)

\* Table.init: the resolver lists, the sources created and the watcher
\* goroutines started, for settings c when the sources in fail fail to
\* initialise (dhcp.init, hf.init, mdns.init, and refresh for the others).
tableInit(c, fail) ==
    IF c.customClientID THEN tableInitClientID ELSE tableInitOrder(c, fail, TRUE)

\* A variant of Table.LookupHostname that asks each resolver for the name of
\* the MAC first.
RECURSIVE tableLookupHostnameMacFirst(_, _, _, _, _, _)
tableLookupHostnameMacFirst(t, d, f, ip, mac, i) ==
    IF i > Len(t.hostnameResolvers) THEN Empty
    ELSE LET r == t.hostnameResolvers[i]
             byIP == srcLookupHostnameByIP(t, d, f, r, ip)
             byMac == srcLookupHostnameByMac(t, d, f, r, mac)
         IN  IF byMac # Empty THEN byMac
             ELSE IF byIP # Empty THEN byIP
             ELSE tableLookupHostnameMacFirst(t, d, f, ip, mac, i + 1)

\* Table.LookupIP: the first non-empty answer of t.ipResolvers, from index i on.
RECURSIVE tableLookupIP(_, _, _, _, _)
tableLookupIP(t, d, f, mac, i) ==
    IF i > Len(t.ipResolvers) THEN Empty
    ELSE LET ip == srcLookupIP(t, d, f, t.ipResolvers[i], mac)
         IN  IF ip # Empty THEN ip ELSE tableLookupIP(t, d, f, mac, i + 1)

\* Table.LookupMac
RECURSIVE tableLookupMac(_, _, _, _, _)
tableLookupMac(t, d, f, ip, i) ==
    IF i > Len(t.macResolvers) THEN Empty
    ELSE LET mac == srcLookupMac(t, d, f, t.macResolvers[i], ip)
         IN  IF mac # Empty THEN mac ELSE tableLookupMac(t, d, f, ip, i + 1)

\* Table.LookupHostname: for each resolver the name by IP, then the name by MAC.
RECURSIVE tableLookupHostname(_, _, _, _, _, _)
tableLookupHostname(t, d, f, ip, mac, i) ==
    IF i > Len(t.hostnameResolvers) THEN Empty
    ELSE LET r == t.hostnameResolvers[i]
             byIP == srcLookupHostnameByIP(t, d, f, r, ip)
             byMac == srcLookupHostnameByMac(t, d, f, r, mac)
         IN  IF byIP # Empty THEN byIP
             ELSE IF byMac # Empty THEN byMac
             ELSE tableLookupHostname(t, d, f, ip, mac, i + 1)

\* Table.lookupMacAll: one entry per MAC resolver, empty answers included.
lookupMacAll(t, d, f, ip) ==
    [i \in 1..Len(t.macResolvers) |->
        [mac |-> srcLookupMac(t, d, f, t.macResolvers[i], ip), src |-> t.macResolvers[i]]]

\* A variant of lookupHostnameAll that treats the PTR source like the others.
RECURSIVE lookupHostnameAllAsksPtr(_, _, _, _, _, _)
lookupHostnameAllAsksPtr(t, d, f, ip, mac, i) ==
    IF i > Len(t.hostnameResolvers) THEN <<>>
    ELSE LET r == t.hostnameResolvers[i]
             rest == lookupHostnameAllAsksPtr(t, d, f, ip, mac, i + 1)
             byIP == srcLookupHostnameByIP(t, d, f, r, ip)
             byMac == srcLookupHostnameByMac(t, d, f, r, mac)
         IN  IF byIP # Empty THEN <<[name |-> byIP, src |-> r]>> \o rest
             ELSE IF byMac # Empty THEN <<[name |-> byMac, src |-> r]>> \o rest
             ELSE rest

\* Table.lookupHostnameAll: the PTR source is asked for its cache only; every
\* other resolver for its name by IP, else its name by MAC.
RECURSIVE lookupHostnameAll(_, _, _, _, _, _)
lookupHostnameAll(t, d, f, ip, mac, i) ==
    IF i > Len(t.hostnameResolvers) THEN <<>>
    ELSE LET r == t.hostnameResolvers[i]
             rest == lookupHostnameAll(t, d, f, ip, mac, i + 1)
             cached == lookupHostnameFromCache(t, f, ip)
             byIP == srcLookupHostnameByIP(t, d, f, r, ip)
             byMac == srcLookupHostnameByMac(t, d, f, r, mac)
         IN  IF r = Ptr
             THEN IF cached # Empty THEN <<[name |-> cached, src |-> r]>> \o rest ELSE rest
             ELSE IF byIP # Empty THEN <<[name |-> byIP, src |-> r]>> \o rest
             ELSE IF byMac # Empty THEN <<[name |-> byMac, src |-> r]>> \o rest
             ELSE rest

\* A variant of the MAC loop that lets every non-empty answer overwrite c.Mac.
RECURSIVE listClientsMacsOverwrite(_, _, _)
listClientsMacsOverwrite(c, es, i) ==
    IF i > Len(es) THEN c
    ELSE listClientsMacsOverwrite(
            IF es[i].mac # Empty
            THEN [c EXCEPT !.Mac = es[i].mac, !.macWrites = @ + 1,
                           !.Source = @ \cup {es[i].src}]
            ELSE c, es, i + 1)

\* ListClients, lines 626-633: the MAC of client c from the entries es.
\* macWrites counts the assignments to c.Mac.
RECURSIVE listClientsMacs(_, _, _)
listClientsMacs(c, es, i) ==
    IF i > Len(es) THEN c
    ELSE LET c1 == IF c.Mac = Empty /\ es[i].mac # Empty
                   THEN [c EXCEPT !.Mac = es[i].mac, !.macWrites = @ + 1] ELSE c
             c2 == IF es[i].mac # Empty
                   THEN [c1 EXCEPT !.Source = @ \cup {es[i].src}] ELSE c1
         IN  listClientsMacs(c2, es, i + 1)

\* ListClients, lines 634-641: the hostname of client c from the entries es.
\* nameWrites counts the assignments to c.Hostname.
RECURSIVE listClientsNames(_, _, _)
listClientsNames(c, es, i) ==
    IF i > Len(es) THEN c
    ELSE LET c1 == IF c.Hostname = Empty /\ es[i].name # Empty
                   THEN [c EXCEPT !.Hostname = es[i].name, !.nameWrites = @ + 1] ELSE c
             c2 == IF es[i].name # Empty
                   THEN [c1 EXCEPT !.Source = @ \cup {es[i].src}] ELSE c1
         IN  listClientsNames(c2, es, i + 1)

\* il of line 609.
IpListers == {Dhcp, Arp, Ptr, Mdns, Vni}

\* ListClients, lines 608-642, for one listed ip.
listClientsOne(t, d, f, ip) ==
    LET c0 == [Mac |-> Empty, Hostname |-> Empty,
               Source |-> {r \in IpListers : ip \in srcList(t, d, f, r)},
               macWrites |-> 0, nameWrites |-> 0]
        c1 == listClientsMacs(c0, lookupMacAll(t, d, f, ip), 1)
    IN  listClientsNames(c1, lookupHostnameAll(t, d, f, ip, c1.Mac, 1), 1)

\* Table.ListClients: netip.MustParseAddr panics on a listed string that is
\* no IP address; otherwise one client per listed string. The tables of the
\* refreshers are taken as they are after the refresh of lines 605-607.
ListClients(t, d, f) ==
    LET ips == UNION {srcList(t, d, f, r) : r \in IpListers}
    IN  IF \E ip \in ips : ~ParseIP(ip)
        THEN [panic |-> TRUE, clients |-> EmptyMap]
        ELSE [panic |-> FALSE, clients |-> [ip \in ips |-> listClientsOne(t, d, f, ip)]]

\* Table.StoreVPNClient on the table of the vni source.
StoreVPNClient(t, f, ci) ==
    IF Vni \notin t.created THEN f
    ELSE {x \in f : ~(x[1] = Vni /\ x[3] = ci.IP)}
         \cup {<<Vni, "mac", ci.IP, ci.Mac>>, <<Vni, "ip2name", ci.IP, ci.Hostname>>}

(***************************************************************************)
(* The machine, the lease files and the other sources' tables              *)
(***************************************************************************)
MaxFacts == 2
MaxInitFailures == 1

MacA == <<"a">>
MacB == <<"b">>
IP1 == <<"1">>
IP2 == <<"2">>

\* A dnsmasq lease line, "<expiry> <mac> <ip> <hostname> <clientid>", as fields.
DnsmasqRecord(mac, ip, hostname) == <<<<"0">>, mac, ip, hostname, <<"*">>>>

\* One machine: hostname "s.l", one interface e with address 9, and a lease
\* directory (router.LeaseFilesDir).
HostA ==
    [hostnameErr |-> FALSE, hostname |-> <<"s", ".", "l">>,
     ifaces |-> <<[mac |-> <<"e">>, addrs |-> <<[ipnet |-> TRUE, ip |-> <<"9">>]>>]>>,
     selfIfaces |-> <<>>, leaseDir |-> TRUE]

\* The default registry (clientInfoFiles of the package).
DefaultRegistry == ("f1" :> Dnsmasq)

\* What the disk may hold when the table is initialised.
TableFiles ==
    { EmptyMap,
      ("f1" :> <<DnsmasqRecord(MacA, IP1, <<"d">>)>>),
      ("f1" :> <<DnsmasqRecord(MacA, <<"1", "%", "e">>, <<"*">>),
                 DnsmasqRecord(MacB, IP2, <<"g", ".", "l">>)>>),
      ("f1" :> <<DnsmasqRecord(MacA, <<"x">>, <<"d">>)>>) }

\* What the sources other than dhcp and vni may hold; each hostname names its
\* source, in lower case when it is the name of the IP and in upper case when
\* it is the name of the MAC.
FactUniverse ==
    { <<Merlin, "ip2name", IP1, <<"m">>>>, <<Merlin, "mac2name", MacA, <<"M">>>>,
      <<Hosts, "ip2name", IP1, <<"h">>>>, <<Hosts, "mac2name", MacA, <<"H">>>>,
      <<Ptr, "ip2name", IP1, <<"p">>>>, <<Ptr, "remote", IP1, <<"q">>>>,
      <<Mdns, "ip2name", IP1, <<"n">>>>,
      <<Arp, "mac", IP1, MacB>>, <<Arp, "ip", MacA, IP2>> }

FactSets == {S \in SUBSET FactUniverse : Cardinality(S) <= MaxFacts}

FailSets == {S \in SUBSET (Sources \ {Vni}) : Cardinality(S) <= MaxInitFailures}

AllOn ==
    [dhcp |-> TRUE, arp |-> TRUE, ptr |-> TRUE, mdns |-> TRUE, hosts |-> TRUE,
     customClientID |-> FALSE, selfIP |-> Empty]

Cfgs ==
    {AllOn, [AllOn EXCEPT !.customClientID = TRUE], [AllOn EXCEPT !.dhcp = FALSE],
     [AllOn EXCEPT !.dhcp = FALSE, !.arp = FALSE]}

VPNClients == {[IP |-> IP1, Mac |-> <<"f">>, Hostname |-> <<"v">>]}

QueryIPs == {IP1}
QueryMACs == {MacA}

Perms(S) ==
    {o \in [1..Cardinality(S) -> S] : \A i, j \in DOMAIN o : i # j => o[i] # o[j]}

NoCall == [op |-> "none"]

InitTable ==
    /\ table = NewTable
    /\ dhcp = NewDhcp(Empty)
    /\ host = HostA
    /\ files \in TableFiles
    /\ clientInfoFiles = DefaultRegistry
    /\ facts \in FactSets
    /\ cfg \in Cfgs
    /\ lastCall = NoCall

\* initOnce.Do(t.init), from Table.Init or from the first lookup.
TableInit ==
    /\ ~crashed
    /\ ~table.inited
    /\ \E fail \in FailSets, order \in Perms(DOMAIN clientInfoFiles) :
        LET d0 == NewDhcp(cfg.selfIP)
            di == IF cfg.customClientID
                  THEN [d |-> addSelf(d0, host), reg |-> clientInfoFiles]
                  ELSE IF cfg.dhcp
                  THEN dhcpInit(d0, host, clientInfoFiles, files, Dhcp \in fail, order)
                  ELSE [d |-> dhcp, reg |-> clientInfoFiles]
        IN  /\ table' = tableInit(cfg, fail)
            /\ dhcp' = di.d
            /\ clientInfoFiles' = di.reg
    /\ lastCall' = NoCall
    /\ UNCHANGED <<host, files, facts, cfg>>
    /\ UNCHANGED <<loopVars, dispVars, watchVars, refreshVars, dohVars, cacheVars, proxyVars, cfgVars>>

LookupIP ==
    /\ table.inited
    /\ \E mac \in QueryMACs :
        lastCall' = [op |-> "LookupIP", mac |-> mac,
                     res |-> tableLookupIP(table, dhcp, facts, mac, 1)]
    /\ UNCHANGED <<dhcp, host, files, clientInfoFiles, facts, cfg, table>>
    /\ UNCHANGED <<loopVars, dispVars, watchVars, refreshVars, dohVars, cacheVars, proxyVars, cfgVars>>

LookupMac ==
    /\ table.inited
    /\ \E ip \in QueryIPs :
        lastCall' = [op |-> "LookupMac", ip |-> ip,
                     res |-> tableLookupMac(table, dhcp, facts, ip, 1)]
    /\ UNCHANGED <<dhcp, host, files, clientInfoFiles, facts, cfg, table>>
    /\ UNCHANGED <<loopVars, dispVars, watchVars, refreshVars, dohVars, cacheVars, proxyVars, cfgVars>>

\* The walk of Table.LookupHostname reaches the PTR source: every resolver
\* before it has no name for the IP nor for the MAC.
ptrAsked(t, d, f, ip, mac) ==
    \E k \in 1..Len(t.hostnameResolvers) :
        /\ t.hostnameResolvers[k] = Ptr
        /\ \A j \in 1..(k - 1) :
              /\ srcLookupHostnameByIP(t, d, f, t.hostnameResolvers[j], ip) = Empty
              /\ srcLookupHostnameByMac(t, d, f, t.hostnameResolvers[j], mac) = Empty

\* Table.LookupHostname; a name the PTR source resolves is cached by it.
LookupHostname ==
    /\ table.inited
    /\ \E ip \in QueryIPs, mac \in QueryMACs :
        /\ lastCall' = [op |-> "LookupHostname", ip |-> ip, mac |-> mac,
                        res |-> tableLookupHostname(table, dhcp, facts, ip, mac, 1)]
        /\ facts' = IF ptrAsked(table, dhcp, facts, ip, mac)
                       /\ ptrLookupHostnameByIP(table, facts, ip) # Empty
                    THEN facts \cup {<<Ptr, "ip2name", ip,
                                       ptrLookupHostnameByIP(table, facts, ip)>>}
                    ELSE facts
    /\ UNCHANGED <<dhcp, host, files, clientInfoFiles, cfg, table>>
    /\ UNCHANGED <<loopVars, dispVars, watchVars, refreshVars, dohVars, cacheVars, proxyVars, cfgVars>>

ListClientsCall ==
    /\ lastCall' = [op |-> "ListClients", res |-> ListClients(table, dhcp, facts)]
    /\ UNCHANGED <<dhcp, host, files, clientInfoFiles, facts, cfg, table>>
    /\ UNCHANGED <<loopVars, dispVars, watchVars, refreshVars, dohVars, cacheVars, proxyVars, cfgVars>>

StoreVPNClientCall ==
    /\ \E ci \in VPNClients : facts' = StoreVPNClient(table, facts, ci)
    /\ lastCall' = NoCall
    /\ UNCHANGED <<dhcp, host, files, clientInfoFiles, cfg, table>>
    /\ UNCHANGED <<loopVars, dispVars, watchVars, refreshVars, dohVars, cacheVars, proxyVars, cfgVars>>

(***************************************************************************)
(* The lease-file watcher                                                  *)
(***************************************************************************)
MaxEvents == 2
MaxReadErrAt == 2

\* No event pending.
IdleWatch == events = <<>>

\* The lines of an ISC dhcpd lease block, as fields.
IscLease(ip) == <<KwLease, ip, <<"{">>>>
IscHardware(mac) == <<KwHardware, KwEthernet, mac \o <<";">>>>
IscHostname(name) == <<KwClientHostname, <<"\"">> \o name \o <<"\"", ";">>>>
IscClose == <<<<"}">>>>

\* The registry of the watcher runs: a dnsmasq file and an ISC dhcpd file;
\* f3 is a file of the lease directory that is not registered.
WatchRegistry == ("f1" :> Dnsmasq) @@ ("f2" :> IscDhcpd)
WatchedNames == {"f1", "f2", "f3"}

\* What the files hold when the table is initialised, and what is written to
\* each file afterwards.
InitialLeases ==
    ("f1" :> <<DnsmasqRecord(MacA, IP1, <<"d">>)>>)
        @@ ("f2" :> <<IscLease(IP2), IscHardware(MacB),
                      IscHostname(<<"g", ".", "l">>), IscClose>>)
LeaseContents(name) ==
    IF name = "f1"
    THEN <<DnsmasqRecord(MacB, IP2, <<"*">>), DnsmasqRecord(MacA, IP1, <<"d">>)>>
    ELSE IF name = "f2"
    THEN <<IscLease(IP1), IscHardware(MacA), IscClose, IscLease(IP2), IscClose>>
    ELSE <<DnsmasqRecord(MacB, IP2, <<"d">>)>>

\* The outcomes of the I/O of one read.
IOOutcomes ==
    {NoIOError, [openErr |-> TRUE, readErrAt |-> 0]}
        \cup {[openErr |-> FALSE, readErrAt |-> k] : k \in 1..MaxReadErrAt}

\* The four maps of the dhcp source.
Maps(d) == [mac2name |-> d.mac2name, ip2name |-> d.ip2name, ip |-> d.ip, mac |-> d.mac]

\* fsnotify reports the changes of a file that was added to the watcher and
\* of every file of the lease directory (watchChanges, lines 50-54).
UnderWatch(name) == host.leaseDir \/ name \in dhcp.watched

\* The queue after a change of file name, reported as op when it is watched.
Emit(name, op) ==
    IF UnderWatch(name) THEN Append(events, [name |-> name, op |-> op]) ELSE events

\* The state Table.init leaves with every source up: the resolver lists, the
\* dhcp source after dhcp.init, its watcher goroutine started.
InitWatch ==
    /\ cfg = AllOn
    /\ facts = {}
    /\ table = tableInit(AllOn, {})
    /\ host \in {HostA, [HostA EXCEPT !.leaseDir = FALSE]}
    /\ \E fs \in {EmptyMap, InitialLeases}, order \in Perms(DOMAIN WatchRegistry) :
        LET di == dhcpInit(NewDhcp(Empty), HostA, WatchRegistry, fs, FALSE, order)
        IN  /\ files = fs
            /\ dhcp = di.d
            /\ clientInfoFiles = di.reg
    /\ lastCall = NoCall
    /\ events = <<>>

\* A process creates or rewrites a lease file.
FsWrite ==
    /\ ~crashed
    /\ Len(events) < MaxEvents
    /\ \E name \in WatchedNames :
        /\ files' = Store(files, name, LeaseContents(name))
        /\ events' = Emit(name, IF name \in DOMAIN files THEN "Write" ELSE "Create")
    /\ lastCall' = NoCall
    /\ UNCHANGED <<dhcp, host, clientInfoFiles, facts, cfg, table>>
    /\ UNCHANGED <<loopVars, dispVars, refreshVars, dohVars, cacheVars, proxyVars, cfgVars>>

\* A process removes a lease file or renames it away; the watch on the file
\* itself ends with it.
FsRemove ==
    /\ ~crashed
    /\ Len(events) < MaxEvents
    /\ \E name \in DOMAIN files, op \in {"Remove", "Rename"} :
        /\ files' = [n \in DOMAIN files \ {name} |-> files[n]]
        /\ events' = Emit(name, op)
        /\ dhcp' = [dhcp EXCEPT !.watched = @ \ {name}]
    /\ lastCall' = NoCall
    /\ UNCHANGED <<host, clientInfoFiles, facts, cfg, table>>
    /\ UNCHANGED <<loopVars, dispVars, refreshVars, dohVars, cacheVars, proxyVars, cfgVars>>

\* A process changes the mode of a lease file.
FsChmod ==
    /\ ~crashed
    /\ Len(events) < MaxEvents
    /\ \E name \in DOMAIN files :
        /\ UnderWatch(name)
        /\ events' = Emit(name, "Chmod")
    /\ lastCall' = NoCall
    /\ UNCHANGED <<dhcp, host, files, clientInfoFiles, facts, cfg, table>>
    /\ UNCHANGED <<loopVars, dispVars, refreshVars, dohVars, cacheVars, proxyVars, cfgVars>>

\* The number of lines a read of file name delivers under outcome io.
LinesRead(fs, name, io) ==
    IF name \notin DOMAIN fs \/ io.openErr THEN 0
    ELSE IF io.readErrAt = 0 THEN Len(fs[name])
    ELSE Min(io.readErrAt - 1, Len(fs[name]))

\* watchChanges, lines 61-68: an event that has Create. cause is the error of
\* the read, err the error the handler sees, logged whether it logs it.
watchCreate(d, reg, fs, name, io) ==
    IF name \in DOMAIN reg
    THEN LET a == addLeaseFile(d, reg, fs, name, reg[name], io)
             r == readLeaseFile(d, fs, name, reg[name], io)
         IN  [d |-> a.d, reg |-> a.reg, read |-> TRUE, format |-> reg[name],
              cause |-> r.err, err |-> a.err, logged |-> a.err # "nil"]
    ELSE [d |-> d, reg |-> reg, read |-> FALSE, format |-> NoFormat,
          cause |-> "nil", err |-> "nil", logged |-> FALSE]

\* watchChanges, lines 69-74: an event that has Write, Rename, Chmod or
\* Remove; the format of a file that is not registered is the zero value.
watchChange(d, reg, fs, name, io) ==
    LET format == IF name \in DOMAIN reg THEN reg[name] ELSE NoFormat
        r == readLeaseFile(d, fs, name, format, io)
    IN  [d |-> r.d, reg |-> reg, read |-> TRUE, format |-> format,
         cause |-> r.err, err |-> r.err,
         logged |-> r.err # "nil" /\ ~IsNotExist(r.err)]

\* One turn of the loop of watchChanges: the oldest event is received and
\* handled.
WatchEvent ==
    /\ ~crashed
    /\ dhcp.watcher
    /\ events # <<>>
    /\ \E io \in IOOutcomes :
        LET ev == Head(events) IN
        \E h \in {IF ev.op = "Create"
                  THEN watchCreate(dhcp, clientInfoFiles, files, ev.name, io)
                  ELSE watchChange(dhcp, clientInfoFiles, files, ev.name, io)} :
            /\ dhcp' = h.d
            /\ clientInfoFiles' = h.reg
            /\ lastCall' = [op |-> "event", name |-> ev.name, event |-> ev.op,
                            ioErr |-> io # NoIOError,
                            lines |-> LinesRead(files, ev.name, io),
                            read |-> h.read, format |-> h.format,
                            cause |-> h.cause, err |-> h.err, logged |-> h.logged,
                            before |-> Maps(dhcp)]
    /\ events' = Tail(events)
    /\ UNCHANGED <<host, files, facts, cfg, table>>
    /\ UNCHANGED <<loopVars, dispVars, refreshVars, dohVars, cacheVars, proxyVars, cfgVars>>

(***************************************************************************)
(* Reading lease files record by record                                    *)
(***************************************************************************)
MaxFiles == 2
MaxRecords == 2

\* The fields of a lease record as they stand in the file; the empty string
\* is a field the record does not have (ISC dhcpd blocks only).
LeaseRecord(mac, ip, name) == [mac |-> mac, ip |-> ip, name |-> name]

BadMac == <<"z">>
BadIP == <<"x">>
Iface(ip) == ip \o <<"%", "e">>

DnsmasqLeaseRecords ==
    { LeaseRecord(MacA, IP1, <<"d">>),
      LeaseRecord(MacA, Iface(IP1), <<"g", ".", "l">>),
      LeaseRecord(MacB, IP2, <<"*">>),
      LeaseRecord(BadMac, IP2, <<"d">>),
      LeaseRecord(MacB, BadIP, <<"d">>),
      LeaseRecord(MacB, Iface(IP2), <<"*">>),
      LeaseRecord(MacA, IP2, <<"d">>) }

IscLeaseRecords ==
    DnsmasqLeaseRecords
        \cup { LeaseRecord(Empty, IP2, Empty), LeaseRecord(MacA, IP1, Empty) }

LeaseRecords(format) ==
    IF format = Dnsmasq THEN DnsmasqLeaseRecords ELSE IscLeaseRecords

\* The lines of record r in a file of the given format.
LinesOfRecord(format, r) ==
    IF format = Dnsmasq THEN <<DnsmasqRecord(r.mac, r.ip, r.name)>>
    ELSE <<IscLease(r.ip)>>
            \o (IF r.mac # Empty THEN <<IscHardware(r.mac)>> ELSE <<>>)
            \o (IF r.name # Empty THEN <<IscHostname(r.name)>> ELSE <<>>)
            \o <<IscClose>>

\* iscDHCPReadClientInfoReader, line 216: the locals at the start of a read.
NoLocals == [ip |-> Empty, mac |-> Empty, hostname |-> Empty]

\* The number of files opened so far.
Opened == IF lastCall.op \in {"open", "record"} THEN lastCall.opened ELSE 0

\* The state after dhcp.init on a machine without lease files: the entries
\* of addSelf only.
InitRead ==
    /\ cfg = AllOn
    /\ facts = {}
    /\ table = tableInit(AllOn, {})
    /\ host = HostA
    /\ files = EmptyMap
    /\ clientInfoFiles = DefaultRegistry
    /\ dhcp = dhcpInit(NewDhcp(Empty), HostA, DefaultRegistry, EmptyMap, FALSE, <<"f1">>).d
    /\ lastCall = NoCall
    /\ events = <<>>

\* dnsmasqReadClientInfoFile / iscDHCPReadClientInfoFile: a lease file of the
\* given format is opened and its reader starts.
OpenLease ==
    /\ Opened < MaxFiles
    /\ \E format \in {Dnsmasq, IscDhcpd} :
        lastCall' = [op |-> "open", format |-> format, opened |-> Opened + 1,
                     n |-> 0, locals |-> NoLocals]
    /\ UNCHANGED <<dhcp, host, files, clientInfoFiles, facts, cfg, table>>
    /\ UNCHANGED <<loopVars, dispVars, watchVars, refreshVars, dohVars, cacheVars, proxyVars, cfgVars>>

\* The reader of the open file reads the lines of the next record.
ReadRecord ==
    /\ lastCall.op \in {"open", "record"}
    /\ lastCall.n < MaxRecords
    /\ \E r \in LeaseRecords(lastCall.format) :
        LET lines == LinesOfRecord(lastCall.format, r) IN
        \E st \in {IF lastCall.format = Dnsmasq
                   THEN [d |-> dnsmasqReadClientInfoReader(dhcp, lines, Len(lines)),
                         ip |-> Empty, mac |-> Empty, hostname |-> Empty]
                   ELSE iscScan([d |-> dhcp, ip |-> lastCall.locals.ip,
                                 mac |-> lastCall.locals.mac,
                                 hostname |-> lastCall.locals.hostname],
                                lines, Len(lines))} :
            /\ dhcp' = st.d
            /\ lastCall' = [op |-> "record", format |-> lastCall.format,
                            opened |-> lastCall.opened, n |-> lastCall.n + 1,
                            locals |-> [ip |-> st.ip, mac |-> st.mac,
                                        hostname |-> st.hostname],
                            carried |-> lastCall.locals,
                            rec |-> r, before |-> Maps(dhcp)]
    /\ UNCHANGED <<host, files, clientInfoFiles, facts, cfg, table>>
    /\ UNCHANGED <<loopVars, dispVars, watchVars, refreshVars, dohVars, cacheVars, proxyVars, cfgVars>>

(***************************************************************************)
(* Table.RefreshLoop                                                       *)
(***************************************************************************)
MaxTicks == 2

\* RefreshLoop was not called.
IdleRefresh ==
    /\ rlPc = "idle" /\ rlIdx = 0 /\ rlDone = <<>>
    /\ tick = FALSE /\ ticks = 0 /\ stop = FALSE /\ quitClosed = 0

\* A variant of the stop case that leaves the select statement only.
onStopBreak(pc) == "select"

\* RefreshLoop, lines 427-429: the position after the stop case.
onStop(pc) == "returned"

\* go RefreshLoop(stopCh), once the table is initialised: the ticker is
\* created and the loop reaches its select statement.
RefreshLoopStart ==
    /\ table.inited
    /\ rlPc = "idle"
    /\ rlPc' = "select"
    /\ UNCHANGED <<rlIdx, rlDone, tick, ticks, stop, quitClosed>>
    /\ UNCHANGED <<loopVars, dispVars, tableVars, watchVars, dohVars, cacheVars, proxyVars, cfgVars>>

\* The ticker sends a tick; timer.C holds one tick at most.
Tick ==
    /\ rlPc \in {"select", "refreshing"}
    /\ ticks < MaxTicks
    /\ tick' = TRUE
    /\ ticks' = ticks + 1
    /\ UNCHANGED <<rlPc, rlIdx, rlDone, stop, quitClosed>>
    /\ UNCHANGED <<loopVars, dispVars, tableVars, watchVars, dohVars, cacheVars, proxyVars, cfgVars>>

\* The owner of stopCh signals it.
Stop ==
    /\ rlPc # "idle"
    /\ ~stop
    /\ stop' = TRUE
    /\ UNCHANGED <<rlPc, rlIdx, rlDone, tick, ticks, quitClosed>>
    /\ UNCHANGED <<loopVars, dispVars, tableVars, watchVars, dohVars, cacheVars, proxyVars, cfgVars>>

\* RefreshLoop, line 423: the select statement takes the tick.
SelectTick ==
    /\ rlPc = "select"
    /\ tick
    /\ tick' = FALSE
    /\ rlDone' = <<>>
    /\ rlIdx' = 1
    /\ rlPc' = IF table.refreshers = <<>> THEN "select" ELSE "refreshing"
    /\ UNCHANGED <<ticks, stop, quitClosed>>
    /\ UNCHANGED <<loopVars, dispVars, tableVars, watchVars, dohVars, cacheVars, proxyVars, cfgVars>>

\* RefreshLoop, lines 424-426: one r.refresh() of the range loop.
Refresh ==
    /\ rlPc = "refreshing"
    /\ rlDone' = Append(rlDone, table.refreshers[rlIdx])
    /\ rlIdx' = rlIdx + 1
    /\ rlPc' = IF rlIdx = Len(table.refreshers) THEN "select" ELSE "refreshing"
    /\ UNCHANGED <<tick, ticks, stop, quitClosed>>
    /\ UNCHANGED <<loopVars, dispVars, tableVars, watchVars, dohVars, cacheVars, proxyVars, cfgVars>>

\* RefreshLoop, lines 427-429: the select statement takes the stop case.
SelectStop ==
    /\ rlPc = "select"
    /\ stop
    /\ quitClosed < 2
    /\ quitClosed' = quitClosed + 1
    /\ rlPc' = onStop(rlPc)
    /\ UNCHANGED <<rlIdx, rlDone, tick, ticks, stop>>
    /\ UNCHANGED <<loopVars, dispVars, tableVars, watchVars, dohVars, cacheVars, proxyVars, cfgVars>>

(***************************************************************************)
(* DoH / DoH3 resolver: dohResolver.Resolve and addHeader                  *)
(***************************************************************************)
MaxDohUpstreams == 2

dohMacHeader == "x-cd-mac"
dohIPHeader == "x-cd-ip"
dohHostHeader == "x-cd-host"
dohOsHeader == "x-cd-os"
headerApplicationDNS == "application/dns-message"

EncodeOsNameMap ==
    [k \in {"windows", "darwin", "linux", "freebsd"} |->
        CASE k = "windows" -> "1" [] k = "darwin" -> "2"
          [] k = "linux" -> "3" [] k = "freebsd" -> "4"]

EncodeArchNameMap ==
    [k \in {"amd64", "arm64", "arm", "386", "mips", "mipsle", "mips64"} |->
        CASE k = "amd64" -> "1" [] k = "arm64" -> "2" [] k = "arm" -> "3"
          [] k = "386" -> "4" [] k = "mips" -> "5" [] k = "mipsle" -> "6"
          [] k = "mips64" -> "7"]

\* A Go map of strings read at a key: "" when the key is missing.
Encoded(m, k) == IF k \in DOMAIN m THEN m[k] ELSE ""

\* The platforms the binary runs on: runtime.GOOS, runtime.GOARCH and the
\* distribution reported by osinfo.
Platforms ==
    { [GOOS |-> "linux", GOARCH |-> "amd64", Dist |-> "ubuntu"],
      [GOOS |-> "openbsd", GOARCH |-> "riscv64", Dist |-> ""] }

\* dohOsHeaderValue: "<os code>-<arch code>-<distribution>".
dohOsHeaderValue(p) ==
    Encoded(EncodeOsNameMap, p.GOOS) \o "-" \o
    Encoded(EncodeArchNameMap, p.GOARCH) \o "-" \o p.Dist

\* textproto.CanonicalMIMEHeaderKey on the keys addHeader sets.
CanonicalHeaderKey(k) ==
    CASE k = "x-cd-mac" -> "X-Cd-Mac"
      [] k = "x-cd-ip" -> "X-Cd-Ip"
      [] k = "x-cd-host" -> "X-Cd-Host"
      [] k = "x-cd-os" -> "X-Cd-Os"
      [] OTHER -> k

\* http.Header.Set, Get and presence of a key, whatever its case.
HeaderSet(h, k, v) == MapSet(h, CanonicalHeaderKey(k), <<v>>)
HeaderGet(h, k) ==
    IF CanonicalHeaderKey(k) \in DOMAIN h THEN h[CanonicalHeaderKey(k)][1] ELSE ""
HeaderHas(h, k) == CanonicalHeaderKey(k) \in DOMAIN h

\* The header of a request made by http.NewRequestWithContext.
NoHeader == [x \in {} |-> <<>>]

\* What ctx.Value(ClientInfoCtxKey{}) holds: nothing, a nil *ClientInfo, or
\* a ClientInfo.
ClientInfos ==
    [kind : {"ci"}, Mac : {"", "aa:bb"}, IP : {"", "10.0.0.2"},
     Hostname : {"", "laptop"}, Self : BOOLEAN]
Contexts == {[kind |-> "absent"], [kind |-> "nil"]} \cup ClientInfos

\* A variant that takes every field of the ClientInfo for a known one.
knownAlways(field) == TRUE

\* addHeader, lines 158, 161, 164: ci.<Field> != "".
known(field) == field # ""

\* addHeader: the header of the request after the call.
addHeader(ctx, header, sendClientInfo, p) ==
    LET h0 == HeaderSet(HeaderSet(HeaderSet(header,
                  "Content-Type", headerApplicationDNS),
                  "Accept", headerApplicationDNS),
                  dohOsHeader, dohOsHeaderValue(p))
    IN  IF sendClientInfo /\ ctx.kind = "ci"
        THEN LET h1 == IF known(ctx.Mac)
                       THEN HeaderSet(h0, dohMacHeader, ctx.Mac) ELSE h0
                 h2 == IF known(ctx.IP)
                       THEN HeaderSet(h1, dohIPHeader, ctx.IP) ELSE h1
                 h3 == IF known(ctx.Hostname)
                       THEN HeaderSet(h2, dohHostHeader, ctx.Hostname) ELSE h2
             IN  IF ctx.Self
                 THEN HeaderSet(h3, dohOsHeader, dohOsHeaderValue(p))
                 ELSE h3
        ELSE h0

\* The upstreams of the DoH family: Type, the evaluated SendClientInfo, and
\* whether the build and the upstream have an HTTP/3 round-tripper.
DohUpstreamConfigs ==
    [Type : {"doh"}, SendClientInfo : BOOLEAN, http3 : {FALSE}]
        \cup [Type : {"doh3"}, SendClientInfo : BOOLEAN, http3 : BOOLEAN]

DohUpstreamLists ==
    UNION {[1..n -> DohUpstreamConfigs] : n \in 1..MaxDohUpstreams}

\* The transports of one upstream: the HTTP/1.1-2 transport and the HTTP/3
\* round-tripper ("none": not available).
TransportsOf(uc) ==
    [h1 |-> "open", h3 |-> IF uc.http3 THEN "open" ELSE "none"]

\* What may happen to one Resolve call: msg.Pack fails, the request cannot
\* be created, c.Do fails, reading the body fails, the status is not 200,
\* the body does not unpack, or an answer comes back.
Outcomes == {"packErr", "requestErr", "doErr", "readErr", "non200",
             "unpackErr", "ok"}

\* uc.doh3Transport: nil when there is no HTTP/3 round-tripper; a closed
\* round-tripper is replaced by a fresh one.
doh3Transport(tr) == IF tr.h3 = "none" THEN "nil" ELSE "h3"
doh3Rebuilt(tr) == tr.h3 = "closed"

\* A variant of the nil check that lets a missing round-tripper through.
transportMissingNever(transport) == FALSE

\* Resolve, line 117: transport == nil.
transportMissing(transport) == transport = "nil"

\* A variant that closes the transport of a failed request of any type.
closeOnErrorAnyType(isDoH3, transport) == TRUE

\* Resolve, lines 124-125: r.isDoH3 and c.Transport.(io.Closer); the HTTP/3
\* round-tripper is the transport that has a Close method.
closeOnError(isDoH3, transport) == isDoH3 /\ transport = "h3"

\* The transports after closer.Close() on the one the client used.
Closed(tr, isDoH3) ==
    IF isDoH3 THEN [tr EXCEPT !.h3 = "closed"] ELSE [tr EXCEPT !.h1 = "closed"]

NoRequest == [sent |-> FALSE, header |-> NoHeader]

\* dohResolver.Resolve for the upstream uc with transports tr.
dohResolve(uc, tr, ctx, outcome, p) ==
    LET isDoH3 == uc.Type = "doh3"
        header == addHeader(ctx, NoHeader, uc.SendClientInfo, p)
        transport == IF isDoH3 THEN doh3Transport(tr) ELSE "h1"
        used == IF isDoH3 /\ doh3Rebuilt(tr) THEN [tr EXCEPT !.h3 = "open"] ELSE tr
        request == [sent |-> TRUE, header |-> header]
        ret(answer, err, req, closed, after) ==
            [answer |-> answer, err |-> err, request |-> req,
             closed |-> closed, tr |-> after]
    IN  CASE outcome = "packErr" ->
               ret(FALSE, "pack", NoRequest, FALSE, tr)
          [] outcome = "requestErr" ->
               ret(FALSE, "could not create request", NoRequest, FALSE, tr)
          [] OTHER ->
               IF isDoH3 /\ transportMissing(transport)
               THEN ret(FALSE, "DoH3 is not supported",
                        [sent |-> FALSE, header |-> header], FALSE, tr)
               ELSE CASE outcome = "doErr" ->
                           IF closeOnError(isDoH3, transport)
                           THEN ret(FALSE, "could not perform request", request,
                                    TRUE, Closed(used, isDoH3))
                           ELSE ret(FALSE, "could not perform request", request,
                                    FALSE, used)
                      [] outcome = "readErr" ->
                           ret(FALSE, "could not read message from response",
                               request, FALSE, used)
                      [] outcome = "non200" ->
                           ret(FALSE, "wrong response from DOH server", request,
                               FALSE, used)
                      [] outcome = "unpackErr" ->
                           ret(FALSE, "answer.Unpack", request, FALSE, used)
                      [] OTHER ->
                           ret(TRUE, "", request, FALSE, used)

NoResolve == [op |-> "none"]

\* No query is being resolved.
IdleDoh ==
    /\ upstreams = <<>>
    /\ transports = <<>>
    /\ platform = [GOOS |-> "", GOARCH |-> "", Dist |-> ""]
    /\ rsPc = "idle" /\ rsIdx = 1
    /\ rsCtx = [kind |-> "absent"]
    /\ lastResolve = NoResolve

\* The proxy with its DoH-family upstreams configured, before any query.
InitDoh ==
    /\ upstreams \in DohUpstreamLists
    /\ transports = [i \in 1..Len(upstreams) |-> TransportsOf(upstreams[i])]
    /\ platform \in Platforms
    /\ rsPc = "idle" /\ rsIdx = 1
    /\ rsCtx = [kind |-> "absent"]
    /\ lastResolve = NoResolve

\* A query arrives: its context carries the client found for it, if any.
DohQuery ==
    /\ rsPc = "idle"
    /\ \E ctx \in Contexts : rsCtx' = ctx
    /\ rsIdx' = 1
    /\ rsPc' = "walk"
    /\ UNCHANGED <<upstreams, transports, platform, lastResolve>>
    /\ UNCHANGED <<loopVars, dispVars, tableVars, watchVars, refreshVars, cacheVars, proxyVars, cfgVars>>

\* The dispatcher calls Resolve on the next upstream of the list: an answer
\* ends the walk, an error advances to the next upstream.
DohResolve ==
    /\ rsPc = "walk"
    /\ rsIdx <= Len(upstreams)
    /\ \E outcome \in Outcomes :
         \E r \in {dohResolve(upstreams[rsIdx], transports[rsIdx], rsCtx,
                              outcome, platform)} :
            /\ transports' = [transports EXCEPT ![rsIdx] = r.tr]
            /\ lastResolve' =
                 [op |-> "resolve", u |-> rsIdx, ctx |-> rsCtx, outcome |-> outcome,
                  before |-> transports[rsIdx], answer |-> r.answer,
                  err |-> r.err, request |-> r.request, closed |-> r.closed]
            /\ IF r.answer
               THEN rsPc' = "done" /\ UNCHANGED rsIdx
               ELSE rsIdx' = rsIdx + 1 /\ UNCHANGED rsPc
    /\ UNCHANGED <<upstreams, platform, rsCtx>>
    /\ UNCHANGED <<loopVars, dispVars, tableVars, watchVars, refreshVars, cacheVars, proxyVars, cfgVars>>

\* Every upstream failed: SERVFAIL goes back to the client.
DohServfail ==
    /\ rsPc = "walk"
    /\ rsIdx > Len(upstreams)
    /\ rsPc' = "done"
    /\ UNCHANGED <<upstreams, transports, platform, rsIdx, rsCtx, lastResolve>>
    /\ UNCHANGED <<loopVars, dispVars, tableVars, watchVars, refreshVars, cacheVars, proxyVars, cfgVars>>

\* The response is written.
DohReturn ==
    /\ rsPc = "done"
    /\ rsPc' = "idle"
    /\ rsIdx' = 1
    /\ rsCtx' = [kind |-> "absent"]
    /\ lastResolve' = NoResolve
    /\ UNCHANGED <<upstreams, transports, platform>>
    /\ UNCHANGED <<loopVars, dispVars, tableVars, watchVars, refreshVars, cacheVars, proxyVars, cfgVars>>

(***************************************************************************)
(* Answer cache (dnscache): an LRU cache of answers with an expiry         *)
(***************************************************************************)
MaxEntries == 2
MaxClock == 1

\* The questions asked and the upstreams answering them.
CacheQuestions ==
    { [Name |-> "example.com.", Qtype |-> "A"],
      [Name |-> "example.com.", Qtype |-> "AAAA"] }
CacheUIDs == {"upstream.0", "upstream.1"}

\* The answer of each upstream to these questions.
AnswerOf(uid) == IF uid = "upstream.1" THEN "NOERROR" ELSE "REFUSED"

\* dnscache.NewKey: the fingerprint of the question and the upstream UID.
NewKey(q, uid) == [Qtype |-> q.Qtype, Name |-> q.Name, Upstream |-> uid]
CacheKeys == {NewKey(q, uid) : q \in CacheQuestions, uid \in CacheUIDs}

\* dnscache.NewValue: the answer and the time it expires.
NewValue(answer, expire) == [Msg |-> answer, Expire |-> expire]

\* The position of a key in the LRU list, 0 when it is not cached.
IndexOf(l, key) ==
    IF \E i \in 1..Len(l) : l[i].key = key
    THEN CHOOSE i \in 1..Len(l) : l[i].key = key
    ELSE 0

Without(l, key) == SelectSeq(l, LAMBDA e : e.key # key)

\* A variant of the lookup that matches the question and not the upstream.
cacheFindAnyUpstream(l, key) ==
    IF \E i \in 1..Len(l) : l[i].key.Qtype = key.Qtype /\ l[i].key.Name = key.Name
    THEN CHOOSE i \in 1..Len(l) :
            l[i].key.Qtype = key.Qtype /\ l[i].key.Name = key.Name
    ELSE 0

\* The entry cached under exactly this key.
cacheFind(l, key) == IndexOf(l, key)

\* Cache.Add: the entry becomes the most recently used one; the least
\* recently used entry is evicted when the capacity is exceeded.
cacheAdd(l, key, value) ==
    LET l1 == <<[key |-> key, value |-> value]>> \o Without(l, key)
    IN  IF Len(l1) > MaxEntries THEN SubSeq(l1, 1, MaxEntries) ELSE l1

\* Cache.Get at time t: a hit makes the entry the most recently used one, an
\* expired entry is discarded.
cacheGet(l, key, t) ==
    LET i == cacheFind(l, key)
    IN  IF i = 0
        THEN [hit |-> FALSE, value |-> NewValue("", 0), cache |-> l]
        ELSE IF l[i].value.Expire > t
             THEN [hit |-> TRUE, value |-> l[i].value,
                   cache |-> <<l[i]>> \o Without(l, l[i].key)]
             ELSE [hit |-> FALSE, value |-> NewValue("", 0),
                   cache |-> Without(l, l[i].key)]

NoGet == [op |-> "none"]

\* An empty cache at time 0.
IdleCache ==
    /\ cache = <<>>
    /\ now = 0
    /\ added = [x \in {} |-> NewValue("", 0)]
    /\ lastGet = NoGet

\* dnscache.NewLRUCache.
InitCache == IdleCache

\* Cache.Add of an upstream's answer that expires at some time.
CacheAdd ==
    /\ \E key \in CacheKeys, expire \in 1..(MaxClock + 1) :
         \E value \in {NewValue(AnswerOf(key.Upstream), expire)} :
            /\ cache' = cacheAdd(cache, key, value)
            /\ added' = MapSet(added, key, value)
    /\ lastGet' = NoGet
    /\ UNCHANGED now
    /\ UNCHANGED <<loopVars, dispVars, tableVars, watchVars, refreshVars, dohVars, proxyVars, cfgVars>>

\* Cache.Get.
CacheGet ==
    /\ \E key \in CacheKeys :
         \E g \in {cacheGet(cache, key, now)} :
            /\ cache' = g.cache
            /\ lastGet' = [op |-> "get", key |-> key, now |-> now,
                           resident |-> IndexOf(cache, key) # 0,
                           hit |-> g.hit, value |-> g.value]
    /\ UNCHANGED <<now, added>>
    /\ UNCHANGED <<loopVars, dispVars, tableVars, watchVars, refreshVars, dohVars, proxyVars, cfgVars>>

\* Time passes.
ClockTick ==
    /\ now < MaxClock
    /\ now' = now + 1
    /\ lastGet' = NoGet
    /\ UNCHANGED <<cache, added>>
    /\ UNCHANGED <<loopVars, dispVars, tableVars, watchVars, refreshVars, dohVars, proxyVars, cfgVars>>

(***************************************************************************)
(* Proxy dispatcher: prog.proxy, from the upstream list to the response    *)
(***************************************************************************)
MaxTTL == 1

\* The IDs of the inbound queries.
QueryIDs == {"id1", "id2"}

\* The upstream lists a policy returns: names of configured upstreams.
ProxyLists ==
    {l \in UNION {[1..n -> CacheUIDs] : n \in 1..MaxUpstreams} :
        \A i, j \in 1..Len(l) : i # j => l[i] # l[j]}

\* UpstreamConfig.UID of the upstream configured under a name.
upstreamUID(name) == IF name = "upstream.0" THEN <<"a">> ELSE <<"b">>

\* A looping upstream is passed over without being tried.
proxySkips(name) == isLoop(upstreamUID(name))

\* A variant where the answer keeps the ID it was built with.
proxyAnswerOwnID(msg, rcode, name, via) ==
    [Id |-> "id0", Rcode |-> rcode, Upstream |-> name, Via |-> via]

\* The answer handed back for a query: it carries the ID of the query.
proxyAnswer(msg, rcode, name, via) ==
    [Id |-> msg.Id, Rcode |-> rcode, Upstream |-> name, Via |-> via]

\* A variant where a failed resolve ends the walk.
proxyAdvanceNever(idx, ok) == idx

\* The walk moves to the next upstream when this one gave no answer.
proxyAdvance(idx, ok) == IF ok THEN idx ELSE idx + 1

\* The expiry of a fresh answer: now + min(TTL, configured max); MaxTTL is
\* the configured max.
proxyExpire(t, ttl, maxTTL) == t + Min(ttl, maxTTL)

NoQuery == [Id |-> "", Question |-> [Name |-> "", Qtype |-> ""]]
NoResponse == [Id |-> "", Rcode |-> "", Upstream |-> "", Via |-> ""]

IdleProxy ==
    /\ pxPc = "idle"
    /\ pxMsg = NoQuery
    /\ pxList = <<>>
    /\ pxIdx = 1
    /\ pxTrace = <<>>
    /\ pxResp = NoResponse

\* The loop table as a completed checkDnsLoop cycle leaves it.
InitLoopChecked ==
    /\ loop \in [CfgUIDs -> BOOLEAN]
    /\ loopMu = "free"
    /\ ckPc = "idle"
    /\ ckTodo = {}
    /\ ckCur = <<>>
    /\ cycles = 1
    /\ crashed = FALSE
    /\ dtPc = "idle"
    /\ dtMsg = NoMsg
    /\ dtUid = <<>>
    /\ dtProbe = NoProbe
    /\ observed = {}

\* A query arrives and the policy yields its upstream list.
ProxyQuery ==
    /\ pxPc = "idle"
    /\ \E id \in QueryIDs, q \in CacheQuestions, l \in ProxyLists :
          /\ pxMsg' = [Id |-> id, Question |-> q]
          /\ pxList' = l
    /\ pxIdx' = 1
    /\ pxTrace' = <<>>
    /\ pxResp' = NoResponse
    /\ pxPc' = "walk"
    /\ UNCHANGED <<loopVars, dispVars, tableVars, watchVars, refreshVars, dohVars,
                   cacheVars, cfgVars>>

\* The next upstream of the list: skipped when loop-flagged; otherwise the
\* cache is probed under (question, upstream) and, on a miss, the resolver is
\* invoked. A hit or an answer is returned (the answer is cached first), a
\* failure advances the walk.
ProxyStep ==
    /\ pxPc = "walk"
    /\ pxIdx <= Len(pxList)
    /\ LET name == pxList[pxIdx]
           key == NewKey(pxMsg.Question, name)
           g == cacheGet(cache, key, now)
       IN  IF proxySkips(name)
           THEN /\ pxTrace' = Append(pxTrace, [Upstream |-> name, Did |-> "skip"])
                /\ pxIdx' = pxIdx + 1
                /\ UNCHANGED <<pxPc, pxResp, cache, added>>
           ELSE IF g.hit
           THEN /\ pxTrace' = Append(pxTrace, [Upstream |-> name, Did |-> "hit"])
                /\ pxResp' = proxyAnswer(pxMsg, g.value.Msg, name, "cache")
                /\ cache' = g.cache
                /\ pxPc' = "done"
                /\ UNCHANGED <<pxIdx, added>>
           ELSE \E ok \in BOOLEAN, ttl \in 1..(MaxTTL + 1) :
                  \E value \in {NewValue(AnswerOf(name), proxyExpire(now, ttl, MaxTTL))} :
                    /\ pxTrace' = Append(pxTrace,
                          [Upstream |-> name, Did |-> IF ok THEN "resolved" ELSE "failed"])
                    /\ pxIdx' = proxyAdvance(pxIdx, ok)
                    /\ IF ok
                       THEN /\ pxResp' = proxyAnswer(pxMsg, value.Msg, name, "resolver")
                            /\ cache' = cacheAdd(g.cache, key, value)
                            /\ added' = MapSet(added, key, value)
                            /\ pxPc' = "done"
                       ELSE /\ cache' = g.cache
                            /\ UNCHANGED <<pxPc, pxResp, added>>
    /\ UNCHANGED <<pxMsg, pxList, now, lastGet>>
    /\ UNCHANGED <<loopVars, dispVars, tableVars, watchVars, refreshVars, dohVars, cfgVars>>

\* No upstream is left: SERVFAIL, built as a reply to the query.
ProxyServfail ==
    /\ pxPc = "walk"
    /\ pxIdx > Len(pxList)
    /\ pxResp' = proxyAnswer(pxMsg, "SERVFAIL", "", "none")
    /\ pxPc' = "done"
    /\ UNCHANGED <<pxMsg, pxList, pxIdx, pxTrace>>
    /\ UNCHANGED <<loopVars, dispVars, tableVars, watchVars, refreshVars, dohVars,
                   cacheVars, cfgVars>>

\* The response is written to the client.
ProxyReturn ==
    /\ pxPc = "done"
    /\ pxPc' = "idle"
    /\ pxMsg' = NoQuery
    /\ pxList' = <<>>
    /\ pxIdx' = 1
    /\ pxTrace' = <<>>
    /\ pxResp' = NoResponse
    /\ UNCHANGED <<loopVars, dispVars, tableVars, watchVars, refreshVars, dohVars,
                   cacheVars, cfgVars>>

(***************************************************************************)
(* Configuration: policies, wildcards and upstream configs                 *)
(***************************************************************************)
MaxLabels == 4

\* strings.Split(s, "."): the labels of a name.
RECURSIVE SplitDot(_)
SplitDot(s) ==
    IF \E i \in 1..Len(s) : s[i] = "."
    THEN LET i == CHOOSE k \in 1..Len(s) :
                    s[k] = "." /\ \A j \in 1..(k - 1) : s[j] # "."
         IN  <<SubSeq(s, 1, i - 1)>> \o SplitDot(SubSeq(s, i + 1, Len(s)))
    ELSE <<s>>

\* strings.Join(labels, ".").
RECURSIVE JoinDot(_)
JoinDot(ls) ==
    IF Len(ls) = 0 THEN Empty
    ELSE IF Len(ls) = 1 THEN ls[1]
    ELSE ls[1] \o <<".">> \o JoinDot(Tail(ls))

\* canonicalName: lower case, without the trailing dot.
canonicalName(domain) == TrimSuffix(ToLower(domain), <<".">>)

\* The positions of the "*" labels of a pattern.
StarsOf(ls) == {i \in 1..Len(ls) : ls[i] = <<"*">>}

\* A variant where the * may stand for no label at all.
wildcardMatchesZeroLabels(wildcard, domain) ==
    LET P == SplitDot(wildcard)
        D == SplitDot(domain)
    IN  /\ Cardinality(StarsOf(P)) = 1
        /\ LET k == CHOOSE i \in StarsOf(P) : TRUE
               n == Len(P) - k
           IN  /\ Len(D) >= Len(P) - 1
               /\ SubSeq(D, 1, k - 1) = SubSeq(P, 1, k - 1)
               /\ SubSeq(D, Len(D) - n + 1, Len(D)) = SubSeq(P, k + 1, Len(P))

\* wildcardMatches: the labels before the * and those after it are the first
\* and the last labels of the domain, and at least one label is left for the *.
wildcardMatches(wildcard, domain) ==
    LET P == SplitDot(wildcard)
        D == SplitDot(domain)
    IN  /\ Cardinality(StarsOf(P)) = 1
        /\ LET k == CHOOSE i \in StarsOf(P) : TRUE
               n == Len(P) - k
           IN  /\ Len(D) >= Len(P)
               /\ SubSeq(D, 1, k - 1) = SubSeq(P, 1, k - 1)
               /\ SubSeq(D, Len(D) - n + 1, Len(D)) = SubSeq(P, k + 1, Len(P))

\* The labels names are built from, and the names of up to MaxLabels labels.
Labels == {<<"a">>, <<"b">>, <<"s">>, <<"s", "x">>, <<"w">>, <<"w", "w">>, <<"x">>, <<"y">>}
Domains == {JoinDot(ls) : ls \in UNION {[1..n -> Labels] : n \in 1..MaxLabels}}

\* The wildcards of the rules: *.w.b, s.*, s.*.w.b, a.*.b, and a name without *.
Wildcards ==
    { <<"*", ".", "w", ".", "b">>,
      <<"s", ".", "*">>,
      <<"s", ".", "*", ".", "w", ".", "b">>,
      <<"a", ".", "*", ".", "b">>,
      <<"w", ".", "b">> }

\* Domain names of the policy tests: abc.xyz, abc.ru, their FQDN and
\* mixed-case forms, the apex ru and a deeper name.
DomainXyz == <<"a", "b", "c", ".", "x", "y", "z">>
DomainRu == <<"a", "b", "c", ".", "r", "u">>
WildcardRu == <<"*", ".", "r", "u">>
PolicyDomains ==
    { DomainXyz, DomainRu, DomainRu \o <<".">>, <<"A", "b", "c", ".", "r", "u">>,
      <<"r", "u">>, <<"x", ".">> \o DomainRu, DomainXyz \o <<".">> }

\* testhelper.SampleConfig: two networks (192.168.0.0/24, 192.168.1.0/24);
\* listener 0 with "My Policy" (one rule per network, one domain rule),
\* listener 1 without a policy.
SampleConfig ==
    [ Network |-> [n \in {"network.0", "network.1"} |->
                     IF n = "network.0" THEN <<192, 168, 0>> ELSE <<192, 168, 1>>],
      Listener |-> [l \in {"0", "1"} |->
        IF l = "0"
        THEN [ HasPolicy |-> TRUE,
               Policy |-> [ Name |-> "My Policy",
                            Networks |-> << [source |-> "network.0",
                                             targets |-> <<"upstream.1", "upstream.0">>],
                                            [source |-> "network.1",
                                             targets |-> <<"upstream.0">>] >>,
                            Rules |-> << [source |-> WildcardRu,
                                          targets |-> <<"upstream.1">>] >> ] ]
        ELSE [ HasPolicy |-> FALSE,
               Policy |-> [Name |-> "", Networks |-> <<>>, Rules |-> <<>>] ] ] ]

\* Source addresses: one in each network and one in neither, over UDP and TCP.
SourceIPs == {<<192, 168, 0, 1>>, <<192, 168, 1, 2>>, <<10, 0, 0, 1>>}
SourceAddrs == {[Network |-> n, IP |-> ip, Port |-> 0] : n \in {"udp", "tcp"}, ip \in SourceIPs}

\* A variant where every network contains every address.
ipNetContainsAny(ipNet, ip) == TRUE

\* net.IPNet.Contains for the /24 networks of the configuration.
ipNetContains(ipNet, ip) == SubSeq(ip, 1, 3) = ipNet

\* The first entry of a rule list that satisfies a predicate, 0 when none does.
FirstRule(rules, Matches(_)) ==
    IF \E i \in 1..Len(rules) : Matches(rules[i])
    THEN CHOOSE i \in 1..Len(rules) :
            Matches(rules[i]) /\ \A j \in 1..(i - 1) : ~Matches(rules[j])
    ELSE 0

NoLog == [Policy |-> "no policy", Network |-> "no network", Unenforced |-> FALSE,
          Rule |-> <<>>, Upstreams |-> <<>>]

\* A variant where the network rule is enforced and the domain rule is not.
upstreamForNetworkFirst(c, defaultUpstreamNum, lc, addr, domain) ==
    LET dflt == <<"upstream." \o defaultUpstreamNum>>
        p == lc.Policy
        n == FirstRule(p.Networks, LAMBDA r : ipNetContains(c.Network[r.source], addr.IP))
    IN  IF ~lc.HasPolicy \/ n = 0
        THEN [upstreams |-> dflt, matched |-> FALSE, log |-> NoLog]
        ELSE [upstreams |-> p.Networks[n].targets, matched |-> TRUE,
              log |-> [Policy |-> p.Name, Network |-> p.Networks[n].source,
                       Unenforced |-> FALSE, Rule |-> <<>>,
                       Upstreams |-> p.Networks[n].targets]]

\* prog.upstreamFor: the network rule of the listener's policy that contains
\* the source is found first (none: the listener's default upstream, not
\* matched); the first domain rule that matches the canonical domain then
\* decides, the network rule being logged as unenforced; without such a rule
\* the network rule decides.
upstreamFor(c, defaultUpstreamNum, lc, addr, domain) ==
    LET dflt == <<"upstream." \o defaultUpstreamNum>>
        p == lc.Policy
        name == canonicalName(domain)
        n == FirstRule(p.Networks, LAMBDA r : ipNetContains(c.Network[r.source], addr.IP))
        d == FirstRule(p.Rules,
                       LAMBDA r : r.source = name \/ wildcardMatches(r.source, name))
    IN  IF ~lc.HasPolicy \/ n = 0
        THEN [upstreams |-> dflt, matched |-> FALSE, log |-> NoLog]
        ELSE IF d # 0
        THEN [upstreams |-> p.Rules[d].targets, matched |-> TRUE,
              log |-> [Policy |-> p.Name, Network |-> p.Networks[n].source,
                       Unenforced |-> TRUE, Rule |-> p.Rules[d].source,
                       Upstreams |-> p.Rules[d].targets]]
        ELSE [upstreams |-> p.Networks[n].targets, matched |-> TRUE,
              log |-> [Policy |-> p.Name, Network |-> p.Networks[n].source,
                       Unenforced |-> FALSE, Rule |-> <<>>,
                       Upstreams |-> p.Networks[n].targets]]

(***************************************************************************)
(* UpstreamConfig                                                          *)
(***************************************************************************)
MaxInits == 2

\* "https://example.com"
EndpointExample ==
    <<"h", "t", "t", "p", "s", ":", "/", "/", "e", "x", "a", "m", "p", "l", "e",
    ".", "c", "o", "m">>
\* "https://example.com?k=v"
EndpointExampleQuery ==
    <<"h", "t", "t", "p", "s", ":", "/", "/", "e", "x", "a", "m", "p", "l", "e",
    ".", "c", "o", "m", "?", "k", "=", "v">>
\* "https://freedns.controld.com/p2"
EndpointControlD ==
    <<"h", "t", "t", "p", "s", ":", "/", "/", "f", "r", "e", "e", "d", "n", "s",
    ".", "c", "o", "n", "t", "r", "o", "l", "d", ".", "c", "o", "m", "/", "p", "2">>
\* "https://dns.google/dns-query"
EndpointGoogle ==
    <<"h", "t", "t", "p", "s", ":", "/", "/", "d", "n", "s", ".", "g", "o", "o",
    "g", "l", "e", "/", "d", "n", "s", "-", "q", "u", "e", "r", "y">>
\* "freedns.controld.com:8853"
EndpointDot ==
    <<"f", "r", "e", "e", "d", "n", "s", ".", "c", "o", "n", "t", "r", "o", "l",
    "d", ".", "c", "o", "m", ":", "8", "8", "5", "3">>
\* "freedns.controld.com"
EndpointDotNoPort ==
    <<"f", "r", "e", "e", "d", "n", "s", ".", "c", "o", "n", "t", "r", "o", "l",
    "d", ".", "c", "o", "m">>
\* "1.2.3.4:53"
EndpointLegacy ==
    <<"1", ".", "2", ".", "3", ".", "4", ":", "5", "3">>
\* "1.2.3.4"
EndpointLegacyNoPort ==
    <<"1", ".", "2", ".", "3", ".", "4">>
\* "controld.com"
controlDComDomain ==
    <<"c", "o", "n", "t", "r", "o", "l", "d", ".", "c", "o", "m">>
\* "controld.dev"
controlDDevDomain ==
    <<"c", "o", "n", "t", "r", "o", "l", "d", ".", "d", "e", "v">>

\* The position of "://" in an endpoint, 0 when it has none.
schemeEnd(e) ==
    IF \E i \in 1..(Len(e) - 2) : SubSeq(e, i, i + 2) = <<":", "/", "/">>
    THEN CHOOSE i \in 1..(Len(e) - 2) :
            /\ SubSeq(e, i, i + 2) = <<":", "/", "/">>
            /\ \A j \in 1..(i - 1) : SubSeq(e, j, j + 2) # <<":", "/", "/">>
    ELSE 0

\* The part of a text before the first character of a set, and the rest.
BeforeAny(t, set) ==
    IF \E i \in 1..Len(t) : t[i] \in set
    THEN SubSeq(t, 1, (CHOOSE i \in 1..Len(t) :
                          t[i] \in set /\ \A j \in 1..(i - 1) : t[j] \notin set) - 1)
    ELSE t

NoURL == [Scheme |-> Empty, Host |-> Empty, Rest |-> Empty]

\* url.Parse of scheme://host[:port][/path][?query].
urlParse(e) ==
    LET i == schemeEnd(e)
        t == SubSeq(e, i + 3, Len(e))
        h == BeforeAny(t, {"/", "?"})
    IN  IF i = 0 THEN NoURL
        ELSE [Scheme |-> SubSeq(e, 1, i - 1), Host |-> h,
              Rest |-> SubSeq(t, Len(h) + 1, Len(t))]

\* The host of host[:port].
hostOf(hostport) == CutBefore(hostport, ":")

\* The host an endpoint names, whether a URL or host[:port].
endpointHost(e) == IF schemeEnd(e) # 0 THEN hostOf(urlParse(e).Host) ELSE hostOf(e)

\* Default ports: 53 for legacy, 853 for DoT and DoQ.
defaultPort(type) == IF type = "legacy" THEN <<"5", "3">> ELSE <<"8", "5", "3">>

\* The text is an IPv4 literal.
isIPLiteral(h) ==
    /\ h # Empty
    /\ \A i \in 1..Len(h) :
          h[i] \in {"0", "1", "2", "3", "4", "5", "6", "7", "8", "9", "."}

\* The host is a cooperative provider's: one of its domains or a name below it.
isControlD(h) ==
    \E d \in {controlDComDomain, controlDDevDomain} :
        h = d \/ HasSuffix(h, <<".">> \o d)

\* A variant that appends the default port whether or not a port is there.
upstreamInitAppendsPort(c) ==
    LET isHTTP == c.Type \in {"doh", "doh3"}
        endpoint == IF isHTTP THEN c.Endpoint
                    ELSE c.Endpoint \o <<":">> \o defaultPort(c.Type)
        domain == IF c.Domain # Empty THEN c.Domain ELSE endpointHost(endpoint)
    IN  [c EXCEPT !.Endpoint = endpoint, !.Domain = domain,
                  !.BootstrapIP = IF c.BootstrapIP = Empty /\ c.Type = "legacy"
                                     /\ isIPLiteral(domain)
                                  THEN domain ELSE c.BootstrapIP,
                  !.IPStack = IF c.IPStack # "" THEN c.IPStack
                              ELSE IF isControlD(domain) THEN "split" ELSE "both",
                  !.u = IF isHTTP THEN urlParse(c.Endpoint) ELSE NoURL,
                  !.uid = [name |-> c.Name, endpoint |-> endpoint]]

\* UpstreamConfig.Init: the endpoint is parsed (a URL for doh and doh3,
\* host[:port] otherwise) and gets the default port when it has none; Domain
\* is derived from it when absent; a legacy endpoint that is an IP literal is
\* its own bootstrap IP; the UID is computed from the name and the endpoint;
\* an IPStack left empty gets its default.
upstreamInit(c) ==
    LET isHTTP == c.Type \in {"doh", "doh3"}
        endpoint == IF isHTTP \/ CutFound(c.Endpoint, ":") THEN c.Endpoint
                    ELSE c.Endpoint \o <<":">> \o defaultPort(c.Type)
        domain == IF c.Domain # Empty THEN c.Domain ELSE endpointHost(endpoint)
    IN  [c EXCEPT !.Endpoint = endpoint, !.Domain = domain,
                  !.BootstrapIP = IF c.BootstrapIP = Empty /\ c.Type = "legacy"
                                     /\ isIPLiteral(domain)
                                  THEN domain ELSE c.BootstrapIP,
                  !.IPStack = IF c.IPStack # "" THEN c.IPStack
                              ELSE IF isControlD(domain) THEN "split" ELSE "both",
                  !.u = IF isHTTP THEN urlParse(c.Endpoint) ELSE NoURL,
                  !.uid = [name |-> c.Name, endpoint |-> endpoint]]

\* A variant that looks at the endpoint only.
upstreamSendClientInfoIgnoresSetting(c) == isControlD(endpointHost(c.Endpoint))

\* UpstreamConfig.UpstreamSendClientInfo: the explicit setting when there is
\* one, else whether the endpoint's host is a cooperative provider's.
upstreamSendClientInfo(c) ==
    IF c.SendClientInfo # "unset" THEN c.SendClientInfo = "true"
    ELSE isControlD(endpointHost(c.Endpoint))

NoUID == [name |-> "", endpoint |-> Empty]

\* Upstream configurations as written in a configuration file.
UpstreamConfigs ==
    { [Name |-> type, Type |-> type, Endpoint |-> e, BootstrapIP |-> Empty,
       Domain |-> Empty, IPStack |-> stack, SendClientInfo |-> sci,
       u |-> NoURL, uid |-> NoUID] :
        type \in {"doh", "doh3"},
        e \in {EndpointExample, EndpointExampleQuery, EndpointControlD, EndpointGoogle},
        stack \in {"", "both", "split"},
        sci \in {"unset", "true", "false"} }
    \cup
    { [Name |-> type, Type |-> type, Endpoint |-> e, BootstrapIP |-> Empty,
       Domain |-> Empty, IPStack |-> stack, SendClientInfo |-> sci,
       u |-> NoURL, uid |-> NoUID] :
        type \in {"dot", "doq", "legacy"},
        e \in {EndpointDot, EndpointDotNoPort, EndpointLegacy, EndpointLegacyNoPort},
        stack \in {"", "both", "split"},
        sci \in {"unset", "true", "false"} }

NoUpstreamConfig == [Type |-> ""]
NoApplied == [op |-> "none"]

IdleCfg ==
    /\ upc = NoUpstreamConfig
    /\ inits = 0
    /\ applied = NoApplied

\* wildcardMatches applied to a rule's wildcard and a canonical domain.
WildcardMatches ==
    /\ applied = NoApplied
    /\ \E wildcard \in Wildcards, domain \in Domains :
          applied' = [op |-> "wildcardMatches", wildcard |-> wildcard,
                      domain |-> domain, match |-> wildcardMatches(wildcard, domain)]
    /\ UNCHANGED <<upc, inits>>
    /\ UNCHANGED <<loopVars, dispVars, tableVars, watchVars, refreshVars, dohVars,
                   cacheVars, proxyVars>>

\* prog.upstreamFor for a query that arrived on a listener; the listener's
\* number is its default upstream's.
UpstreamFor ==
    /\ applied = NoApplied
    /\ \E l \in DOMAIN SampleConfig.Listener, addr \in SourceAddrs, domain \in PolicyDomains :
          applied' = [op |-> "upstreamFor", listener |-> l, addr |-> addr,
                      domain |-> domain,
                      res |-> upstreamFor(SampleConfig, l, SampleConfig.Listener[l],
                                          addr, domain)]
    /\ UNCHANGED <<upc, inits>>
    /\ UNCHANGED <<loopVars, dispVars, tableVars, watchVars, refreshVars, dohVars,
                   cacheVars, proxyVars>>

\* A configuration is loaded.
InitUpstream ==
    /\ upc \in UpstreamConfigs
    /\ inits = 0
    /\ applied = NoApplied

\* uc.Init().
UpstreamInit ==
    /\ inits < MaxInits
    /\ upc' = upstreamInit(upc)
    /\ inits' = inits + 1
    /\ UNCHANGED applied
    /\ UNCHANGED <<loopVars, dispVars, tableVars, watchVars, refreshVars, dohVars,
                   cacheVars, proxyVars>>

\* uc.UpstreamSendClientInfo(), before or after Init.
UpstreamSendClientInfo ==
    /\ applied = NoApplied
    /\ applied' = [op |-> "UpstreamSendClientInfo", uc |-> upc,
                   res |-> upstreamSendClientInfo(upc)]
    /\ UNCHANGED <<upc, inits>>
    /\ UNCHANGED <<loopVars, dispVars, tableVars, watchVars, refreshVars, dohVars,
                   cacheVars, proxyVars>>

\* The caller has taken the result.
Returned ==
    /\ applied # NoApplied
    /\ applied' = NoApplied
    /\ UNCHANGED <<upc, inits>>
    /\ UNCHANGED <<loopVars, dispVars, tableVars, watchVars, refreshVars, dohVars,
                   cacheVars, proxyVars>>

(***************************************************************************)
(* Specifications                                                          *)
(***************************************************************************)
\* The client-info side at rest, for the specification of the loop detector.
IdleTable ==
    /\ table = NewTable
    /\ dhcp = NewDhcp(Empty)
    /\ host = HostA
    /\ files = EmptyMap
    /\ clientInfoFiles = DefaultRegistry
    /\ facts = {}
    /\ cfg = AllOn
    /\ lastCall = NoCall

InitL == InitLoop /\ InitDisp /\ IdleTable /\ IdleWatch /\ IdleRefresh /\ IdleDoh /\ IdleCache /\ IdleProxy /\ IdleCfg

NextLoop ==
    \/ CheckStart
    \/ CheckRangeNext
    \/ CheckRangeCrash
    \/ CheckResolveReturn
    \/ CheckEnd
    \/ DetectLoopIgnore
    \/ DetectLoopLock
    \/ DetectLoopStoreUnlock
    \/ DispatchStart
    \/ DispatchWalk
    \/ DispatchServfail
    \/ DispatchReturn

SpecLoop == InitL /\ [][NextLoop]_vars

InitT == InitLoop /\ InitDisp /\ InitTable /\ IdleWatch /\ IdleRefresh /\ IdleDoh /\ IdleCache /\ IdleProxy /\ IdleCfg

NextTable ==
    \/ TableInit
    \/ LookupIP
    \/ LookupMac
    \/ LookupHostname
    \/ ListClientsCall
    \/ StoreVPNClientCall

SpecTable == InitT /\ [][NextTable]_vars

InitW == InitLoop /\ InitDisp /\ InitWatch /\ IdleRefresh /\ IdleDoh /\ IdleCache /\ IdleProxy /\ IdleCfg

NextWatch ==
    \/ FsWrite
    \/ FsRemove
    \/ FsChmod
    \/ WatchEvent

SpecWatch == InitW /\ [][NextWatch]_vars

InitR == InitLoop /\ InitDisp /\ InitRead /\ IdleRefresh /\ IdleDoh /\ IdleCache /\ IdleProxy /\ IdleCfg

NextRead ==
    \/ OpenLease
    \/ ReadRecord

SpecRead == InitR /\ [][NextRead]_vars

\* The table before Table.Init on a machine without lease files, and
\* RefreshLoop not called yet.
InitF ==
    /\ InitLoop /\ InitDisp /\ InitTable /\ IdleWatch /\ IdleRefresh
    /\ IdleDoh /\ IdleCache /\ IdleProxy /\ IdleCfg
    /\ files = EmptyMap
    /\ facts = {}

NextRefresh ==
    \/ TableInit
    \/ RefreshLoopStart
    \/ Tick
    \/ Stop
    \/ SelectTick
    \/ Refresh
    \/ SelectStop

SpecRefresh == InitF /\ [][NextRefresh]_vars

\* The goroutine of RefreshLoop is scheduled, every refresh() returns, and
\* the select statement, which chooses among its ready cases at random, does
\* not pass over the stop case for ever.
FairRefresh ==
    /\ WF_vars(SelectTick)
    /\ WF_vars(Refresh)
    /\ SF_vars(SelectStop)

SpecRefreshFair == SpecRefresh /\ FairRefresh

\* The machines self-discovery may run on: up to MaxIfaces interfaces in the
\* order interfaces.ForeachInterface yields them (the loopback interface has
\* no MAC), with or without a router interface, and os.Hostname failing or not.
MaxIfaces == 2

IfLo == [mac |-> Empty, addrs |-> <<[ipnet |-> TRUE, ip |-> Loopback4]>>]
IfE == [mac |-> <<"e">>, addrs |-> <<[ipnet |-> TRUE, ip |-> <<"6">>],
                                     [ipnet |-> TRUE, ip |-> <<"8">>]>>]
IfF == [mac |-> <<"f">>, addrs |-> <<[ipnet |-> TRUE, ip |-> <<"9">>]>>]
IfG == [mac |-> <<"g">>, addrs |-> <<[ipnet |-> FALSE, ip |-> Empty],
                                     [ipnet |-> TRUE, ip |-> <<"2">>]>>]
IfR == [mac |-> <<"r">>, addrs |-> <<[ipnet |-> TRUE, ip |-> <<"1">>]>>]

SelfIfaceLists ==
    {l \in UNION {[1..n -> {IfLo, IfE, IfF, IfG}] : n \in 1..MaxIfaces} :
        \A i, j \in 1..Len(l) : i # j => l[i] # l[j]}

SelfHosts ==
    {[hostnameErr |-> e, hostname |-> <<"S", ".", "l">>, ifaces |-> l,
      selfIfaces |-> r, leaseDir |-> FALSE] :
        e \in BOOLEAN, l \in SelfIfaceLists, r \in {<<>>, <<IfR>>}}

\* The settings: the discover_* switches, a UID with or without a custom
\* client id, and the selfIP handed to the table.
SelfCfgs ==
    {[c EXCEPT !.customClientID = id, !.selfIP = ip] :
        c \in {AllOn, [AllOn EXCEPT !.dhcp = FALSE],
               [AllOn EXCEPT !.dhcp = FALSE, !.arp = FALSE, !.ptr = FALSE,
                             !.mdns = FALSE, !.hosts = FALSE]},
        id \in BOOLEAN, ip \in {Empty, <<"6">>, <<"9">>}}

InitS ==
    /\ InitLoop /\ InitDisp /\ IdleWatch /\ IdleRefresh /\ IdleDoh /\ IdleCache /\ IdleProxy /\ IdleCfg
    /\ table = NewTable
    /\ dhcp = NewDhcp(Empty)
    /\ host \in SelfHosts
    /\ files = EmptyMap
    /\ clientInfoFiles = DefaultRegistry
    /\ facts = {}
    /\ cfg \in SelfCfgs
    /\ lastCall = NoCall

NextSelf == TableInit

SpecSelf == InitS /\ [][NextSelf]_vars

InitP ==
    /\ InitLoopChecked /\ InitDisp /\ IdleTable /\ IdleWatch /\ IdleRefresh
    /\ IdleDoh /\ InitCache /\ IdleProxy /\ IdleCfg

NextProxy ==
    \/ ProxyQuery
    \/ ProxyStep
    \/ ProxyServfail
    \/ ProxyReturn
    \/ ClockTick

SpecProxy == InitP /\ [][NextProxy]_vars

InitG ==
    /\ InitLoop /\ InitDisp /\ IdleTable /\ IdleWatch /\ IdleRefresh
    /\ IdleDoh /\ IdleCache /\ IdleProxy /\ IdleCfg

NextCfg ==
    \/ WildcardMatches
    \/ UpstreamFor
    \/ Returned

SpecCfg == InitG /\ [][NextCfg]_vars

InitU ==
    /\ InitLoop /\ InitDisp /\ IdleTable /\ IdleWatch /\ IdleRefresh
    /\ IdleDoh /\ IdleCache /\ IdleProxy /\ InitUpstream

NextUpstream ==
    \/ UpstreamInit
    \/ UpstreamSendClientInfo
    \/ Returned

SpecUpstream == InitU /\ [][NextUpstream]_vars

InitD ==
    /\ InitLoop /\ InitDisp /\ IdleTable /\ IdleWatch /\ IdleRefresh
    /\ InitDoh /\ IdleCache /\ IdleProxy /\ IdleCfg

NextDoh ==
    \/ DohQuery
    \/ DohResolve
    \/ DohServfail
    \/ DohReturn

SpecDoh == InitD /\ [][NextDoh]_vars

InitC ==
    /\ InitLoop /\ InitDisp /\ IdleTable /\ IdleWatch /\ IdleRefresh
    /\ IdleDoh /\ InitCache /\ IdleProxy /\ IdleCfg

NextCache ==
    \/ CacheAdd
    \/ CacheGet
    \/ ClockTick

SpecCache == InitC /\ [][NextCache]_vars

(***************************************************************************)
(* Properties of the loop detector                                         *)
(***************************************************************************)

\* C1 (as stated): once loop[u] is true it is true in every later state; no
\* step of the loop detector resets a flag to false.
C1_FlagNeverCleared ==
    [][\A u \in DOMAIN loop : loop[u] => MapGet(loop', u)]_vars

\* A step that starts a checkDnsLoop cycle (lines 58-64).
IsCycleStart == ckPc = "idle" /\ ckPc' = "range" /\ cycles' = cycles + 1

\* C1 (amended): a flag that is true goes back to false only in the step that
\* starts a checkDnsLoop cycle, and only for a configured upstream; detectLoop,
\* isLoop and the rest of the cycle never clear a flag, and no key is removed.
C1_FlagClearedOnlyByCycleStart ==
    [][\A u \in DOMAIN loop :
         /\ u \in DOMAIN loop'
         /\ (loop[u] /\ ~loop'[u]) => (IsCycleStart /\ u \in CfgUIDs)]_vars

\* A flag set during a cycle is still set after the cycle, when the dispatcher
\* has read it through isLoop.
C1_Witness ==
    /\ cycles >= 1
    /\ ckPc = "idle"
    /\ \E u \in skipped : MapGet(loop, u)

IsProbeOf(msg, uid) ==
    /\ Len(msg.Question) = 1
    /\ msg.Question[1].Qtype = loopTestQtype
    /\ msg.Question[1].Name = uid \o loopTestDomain \o <<".">>

\* C3: a detectLoop call changes the table only by setting loop[uid] to true for
\* a message with exactly one question of qtype TXT named <uid>.test. with uid in
\* the table; for every other message the table is unchanged.
C3_OnlyExactProbeSetsFlag ==
    [][/\ (dtPc = "locked" /\ dtPc' = "idle") =>
            IF \E u \in DOMAIN loop : IsProbeOf(dtMsg, u)
            THEN \E u \in DOMAIN loop :
                    IsProbeOf(dtMsg, u) /\ loop' = MapSet(loop, u, TRUE)
            ELSE loop' = loop
       /\ (dtPc = "idle" /\ dtPc' = "idle" /\ dtMsg' # dtMsg) => loop' = loop]_vars

\* C4: every candidate the dispatcher probed or queried had no true loop flag
\* when it was walked, and every candidate it skipped had one: an upstream
\* without an entry in the loop table is never skipped.
C4_LoopedUpstreamsSkipped ==
    /\ \A u \in contacted : flagAtWalk[u] = FALSE
    /\ \A u \in skipped : flagAtWalk[u] = TRUE

\* One walk skipped a looping upstream and went on to an upstream that has no
\* entry in the loop table.
C4_Witness ==
    /\ \E u \in skipped : MapGet(loop, u)
    /\ \E u \in contacted : u \notin DOMAIN loop

(***************************************************************************)
(* Properties of the client-info table                                     *)
(***************************************************************************)
MinOf(S) == CHOOSE x \in S : \A y \in S : x <= y

\* The hostname source src holds for (ip, mac): its name of the IP, else its
\* name of the MAC.
SrcName(src, ip, mac) ==
    IF srcLookupHostnameByIP(table, dhcp, facts, src, ip) # Empty
    THEN srcLookupHostnameByIP(table, dhcp, facts, src, ip)
    ELSE srcLookupHostnameByMac(table, dhcp, facts, src, mac)

\* The name held by the first source of order that holds one for (ip, mac).
FirstName(order, ip, mac) ==
    LET holders == {i \in 1..Len(order) : SrcName(order[i], ip, mac) # Empty}
    IN  IF holders = {} THEN Empty ELSE SrcName(order[MinOf(holders)], ip, mac)

AllSourcesUp == table.inited /\ cfg = AllOn /\ table.failed = {}

\* The priority order as the specification lists it, and as Table.init
\* registers the hostname resolvers (the ARP source resolves no hostname).
OrderAsSpecified == <<Hosts, Dhcp, Arp, Ptr, Mdns, Vni, Merlin>>
OrderAsRegistered == <<Merlin, Hosts, Dhcp, Ptr, Mdns, Vni>>

\* C5 (as stated): with every source enabled and initialised, LookupHostname
\* returns the name of the earliest holder in the order hosts file, DHCP, ARP,
\* PTR, mDNS, VPN table, router-vendor hook.
C5_HostnamePriorityAsSpecified ==
    (lastCall.op = "LookupHostname" /\ AllSourcesUp)
        => lastCall.res = FirstName(OrderAsSpecified, lastCall.ip, lastCall.mac)

\* C5 (amended): with every source enabled and initialised, LookupHostname
\* returns the name of the earliest holder in the order router-vendor hook,
\* hosts file, DHCP, PTR, mDNS, VPN table.
C5_HostnamePriorityAsRegistered ==
    (lastCall.op = "LookupHostname" /\ AllSourcesUp)
        => lastCall.res = FirstName(OrderAsRegistered, lastCall.ip, lastCall.mac)

\* The router-vendor hook and the hosts file both hold a name and the lookup
\* returned the hook's.
C5_Witness ==
    /\ lastCall.op = "LookupHostname"
    /\ AllSourcesUp
    /\ SrcName(Hosts, lastCall.ip, lastCall.mac) # Empty
    /\ SrcName(Merlin, lastCall.ip, lastCall.mac) # Empty
    /\ lastCall.res = SrcName(Merlin, lastCall.ip, lastCall.mac)
    /\ lastCall.res # SrcName(Hosts, lastCall.ip, lastCall.mac)

\* C6: each lookup returns the answer of the first registered resolver, in
\* registration order, whose answer is not empty, and the empty string when
\* there is none; a hostname resolver answers with its name of the IP before
\* its name of the MAC.
C6_FirstNonEmptyAnswer ==
    /\ lastCall.op = "LookupIP" =>
        LET rs == table.ipResolvers
            ans(i) == srcLookupIP(table, dhcp, facts, rs[i], lastCall.mac)
            holders == {i \in 1..Len(rs) : ans(i) # Empty}
        IN  lastCall.res = IF holders = {} THEN Empty ELSE ans(MinOf(holders))
    /\ lastCall.op = "LookupMac" =>
        LET rs == table.macResolvers
            ans(i) == srcLookupMac(table, dhcp, facts, rs[i], lastCall.ip)
            holders == {i \in 1..Len(rs) : ans(i) # Empty}
        IN  lastCall.res = IF holders = {} THEN Empty ELSE ans(MinOf(holders))
    /\ lastCall.op = "LookupHostname" =>
        LET rs == table.hostnameResolvers
            byIP(i) == srcLookupHostnameByIP(table, dhcp, facts, rs[i], lastCall.ip)
            byMac(i) == srcLookupHostnameByMac(table, dhcp, facts, rs[i], lastCall.mac)
            holders == {i \in 1..Len(rs) : byIP(i) # Empty \/ byMac(i) # Empty}
        IN  lastCall.res =
                IF holders = {} THEN Empty
                ELSE IF byIP(MinOf(holders)) # Empty THEN byIP(MinOf(holders))
                ELSE byMac(MinOf(holders))

\* A hostname lookup answered by a resolver that holds a name of the IP and
\* a different name of the MAC, while an earlier resolver holds neither.
C6_Witness ==
    /\ lastCall.op = "LookupHostname"
    /\ \E i \in 2..Len(table.hostnameResolvers) :
        LET r == table.hostnameResolvers[i]
            byIP == srcLookupHostnameByIP(table, dhcp, facts, r, lastCall.ip)
            byMac == srcLookupHostnameByMac(table, dhcp, facts, r, lastCall.mac)
        IN  /\ byIP # Empty /\ byMac # Empty /\ byIP # byMac
            /\ lastCall.res = byIP
            /\ \A j \in 1..(i - 1) :
                SrcName(table.hostnameResolvers[j], lastCall.ip, lastCall.mac) = Empty

\* The source src listed ip, or answered the MAC or the hostname passes of
\* ListClients for ip with a non-empty value; mac is the MAC of the client.
ListedBy(src, ip) == src \in IpListers /\ ip \in srcList(table, dhcp, facts, src)
SuppliedMac(src, ip) ==
    /\ \E i \in 1..Len(table.macResolvers) : table.macResolvers[i] = src
    /\ srcLookupMac(table, dhcp, facts, src, ip) # Empty
SuppliedName(src, ip, mac) ==
    /\ \E i \in 1..Len(table.hostnameResolvers) : table.hostnameResolvers[i] = src
    /\ \/ src = Ptr /\ lookupHostnameFromCache(table, facts, ip) # Empty
       \/ src # Ptr /\ srcLookupHostnameByIP(table, dhcp, facts, src, ip) # Empty
       \/ src # Ptr /\ srcLookupHostnameByMac(table, dhcp, facts, src, mac) # Empty

\* C7: ListClients returns one Client for every string listed by a source and
\* for nothing else, and a client's Source holds a source exactly when that
\* source listed the IP or supplied a non-empty MAC or hostname for it.
C7_OneClientPerListedIP ==
    lastCall.op = "ListClients" =>
        /\ ~lastCall.res.panic
        /\ DOMAIN lastCall.res.clients =
                UNION {srcList(table, dhcp, facts, r) : r \in IpListers}
        /\ \A ip \in DOMAIN lastCall.res.clients :
            lastCall.res.clients[ip].Source =
                {src \in Sources :
                    \/ ListedBy(src, ip)
                    \/ SuppliedMac(src, ip)
                    \/ SuppliedName(src, ip, lastCall.res.clients[ip].Mac)}

\* The same statement for the calls in which every listed string is an IP
\* address.
C7_HoldsWhenEveryListedStringParses ==
    (lastCall.op = "ListClients" /\ ~lastCall.res.panic) =>
        /\ DOMAIN lastCall.res.clients =
                UNION {srcList(table, dhcp, facts, r) : r \in IpListers}
        /\ \A ip \in DOMAIN lastCall.res.clients :
            lastCall.res.clients[ip].Source =
                {src \in Sources :
                    \/ ListedBy(src, ip)
                    \/ SuppliedMac(src, ip)
                    \/ SuppliedName(src, ip, lastCall.res.clients[ip].Mac)}

\* The answers the MAC and hostname passes of ListClients see for ip, in
\* registration order.
MacAnswer(i, ip) == srcLookupMac(table, dhcp, facts, table.macResolvers[i], ip)
NameAnswer(i, ip, mac) ==
    LET r == table.hostnameResolvers[i]
        byIP == srcLookupHostnameByIP(table, dhcp, facts, r, ip)
    IN  IF r = Ptr THEN lookupHostnameFromCache(table, facts, ip)
        ELSE IF byIP # Empty THEN byIP
        ELSE srcLookupHostnameByMac(table, dhcp, facts, r, mac)

\* C8: while ListClients assembles a Client, Mac and Hostname are each
\* assigned at most once, with the value of the earliest source in priority
\* order whose value is not empty; a later source never replaces it.
C8_MacAndHostnameAssignedOnce ==
    (lastCall.op = "ListClients" /\ ~lastCall.res.panic) =>
        \A ip \in DOMAIN lastCall.res.clients :
            LET c == lastCall.res.clients[ip]
                macs == {i \in 1..Len(table.macResolvers) : MacAnswer(i, ip) # Empty}
                names == {i \in 1..Len(table.hostnameResolvers) :
                            NameAnswer(i, ip, c.Mac) # Empty}
            IN  /\ c.macWrites <= 1
                /\ c.nameWrites <= 1
                /\ c.Mac = IF macs = {} THEN Empty ELSE MacAnswer(MinOf(macs), ip)
                /\ c.Hostname = IF names = {} THEN Empty
                                ELSE NameAnswer(MinOf(names), ip, c.Mac)

\* A client whose MAC and hostname come from the first holders while later
\* sources hold different ones and are recorded in Source only.
C8_Witness ==
    /\ lastCall.op = "ListClients"
    /\ ~lastCall.res.panic
    /\ \E ip \in DOMAIN lastCall.res.clients :
        LET c == lastCall.res.clients[ip]
        IN  /\ c.macWrites = 1 /\ c.nameWrites = 1
            /\ \E i, j \in 1..Len(table.macResolvers) :
                /\ i < j /\ MacAnswer(i, ip) = c.Mac
                /\ MacAnswer(j, ip) \notin {Empty, c.Mac}
                /\ table.macResolvers[j] \in c.Source
            /\ \E i, j \in 1..Len(table.hostnameResolvers) :
                /\ i < j /\ NameAnswer(i, ip, c.Mac) = c.Hostname
                /\ NameAnswer(j, ip, c.Mac) \notin {Empty, c.Hostname}
                /\ table.hostnameResolvers[j] \in c.Source

(***************************************************************************)
(* Properties of the lease-file watcher                                    *)
(***************************************************************************)
\* The records a lease file holds, read off its format: one per dnsmasq
\* line, one per ISC dhcpd block with the fields that appear inside it.
NoRecord == [ip |-> Empty, mac |-> Empty, name |-> Empty]

DnsmasqRecordOf(fields) ==
    IF Len(fields) < 4 THEN NoRecord
    ELSE [ip |-> normalizeIP(fields[3]), mac |-> fields[2],
          name |-> IF fields[4] = <<"*">> THEN Empty ELSE fields[4]]

RECURSIVE IscRecordsFrom(_, _, _)
IscRecordsFrom(lines, i, cur) ==
    IF i > Len(lines) THEN <<>>
    ELSE LET f == lines[i] IN
         IF Len(f) >= 1 /\ HasPrefix(f[1], <<"}">>)
         THEN <<cur>> \o IscRecordsFrom(lines, i + 1, NoRecord)
         ELSE IF Len(f) >= 2 /\ f[1] = KwLease
         THEN IscRecordsFrom(lines, i + 1,
                             [NoRecord EXCEPT !.ip = normalizeIP(ToLower(f[2]))])
         ELSE IF Len(f) >= 3 /\ f[1] = KwHardware
         THEN IscRecordsFrom(lines, i + 1,
                             [cur EXCEPT !.mac = ToLower(TrimRight(f[3], {";"}))])
         ELSE IF Len(f) >= 2 /\ f[1] = KwClientHostname
         THEN IscRecordsFrom(lines, i + 1,
                             [cur EXCEPT !.name = Trim(f[2], {"\"", ";"})])
         ELSE IscRecordsFrom(lines, i + 1, cur)

RecordsOf(lines, format) ==
    IF format = Dnsmasq THEN [k \in 1..Len(lines) |-> DnsmasqRecordOf(lines[k])]
    ELSE IscRecordsFrom(lines, 1, NoRecord)

\* A record is valid when its IP and its MAC parse, and in force when no later
\* record of the file names its IP or its MAC.
ValidRecord(r) == ParseIP(r.ip) /\ ParseMAC(r.mac)
InForce(recs, k) ==
    \A j \in (k + 1)..Len(recs) : recs[j].ip # recs[k].ip /\ recs[j].mac # recs[k].mac

\* The dhcp source resolves record r.
Resolvable(r) ==
    /\ dhcpLookupMac(dhcp, r.ip) = r.mac
    /\ dhcpLookupIP(dhcp, r.mac) = r.ip
    /\ r.name # Empty =>
        /\ dhcpLookupHostnameByIP(dhcp, r.ip) # Empty
        /\ dhcpLookupHostnameByMac(dhcp, r.mac) # Empty

HandledRegistered == lastCall.op = "event" /\ lastCall.name \in DOMAIN clientInfoFiles

\* C9, first part: an event on a registered file makes the watcher read the
\* file with its registered format.
C9_Reread ==
    HandledRegistered =>
        lastCall.read /\ lastCall.format = clientInfoFiles[lastCall.name]

\* C9, second part: after the event is handled, every valid record in force
\* in the file is resolvable through the dhcp source.
C9_RecordsResolvable ==
    (HandledRegistered /\ ~lastCall.ioErr /\ lastCall.name \in DOMAIN files) =>
        LET recs == RecordsOf(files[lastCall.name], clientInfoFiles[lastCall.name])
        IN  \A k \in 1..Len(recs) :
                (ValidRecord(recs[k]) /\ InForce(recs, k)) => Resolvable(recs[k])

\* C9, third part: a read that fails because the file is gone is not logged.
C9_FileGoneNotLogged ==
    (HandledRegistered /\ lastCall.cause = "notexist") => ~lastCall.logged

\* C9: for every event with Create, Write, Rename, Chmod or Remove on a
\* registered lease file the watcher re-reads the file with its registered
\* format, after which every valid record of the file is resolvable through
\* the dhcp source; a read that fails because the file is gone is ignored
\* without logging.
C9_EventRereadsFile ==
    C9_Reread /\ C9_RecordsResolvable /\ C9_FileGoneNotLogged

FailedReread == lastCall.op = "event" /\ lastCall.read /\ lastCall.err # "nil"

\* C10 (as stated): after a failed re-read the four maps of the dhcp source
\* are what they were before it.
C10_FailedRereadLeavesMaps ==
    FailedReread => Maps(dhcp) = lastCall.before

\* The keys of map m whose entry is new or differs from the one before the
\* re-read.
Changed(m) ==
    {k \in DOMAIN Maps(dhcp)[m] :
        k \notin DOMAIN lastCall.before[m] \/ lastCall.before[m][k] # Maps(dhcp)[m][k]}

\* C10 (amended): a re-read that fails on the format or on opening the file
\* leaves the four maps as they were; a dnsmasq read that fails part-way
\* removes nothing, has stored the records of the lines read before the
\* failure, and has changed no entry but theirs.
C10_FailedRereadKeepsLinesRead ==
    FailedReread =>
        /\ lastCall.cause \in {"unsupported", "notexist", "open"} =>
                Maps(dhcp) = lastCall.before
        /\ lastCall.cause = "read" =>
            LET recs == SubSeq(RecordsOf(files[lastCall.name], Dnsmasq),
                               1, lastCall.lines)
                ips == {recs[k].ip : k \in 1..Len(recs)} \cup {Empty}
                macs == {recs[k].mac : k \in 1..Len(recs)}
            IN  /\ lastCall.format = Dnsmasq
                /\ \A m \in {"mac2name", "ip2name", "ip", "mac"} :
                        DOMAIN lastCall.before[m] \subseteq DOMAIN Maps(dhcp)[m]
                /\ \A k \in 1..Len(recs) :
                        (ValidRecord(recs[k]) /\ InForce(recs, k)) => Resolvable(recs[k])
                /\ Changed("ip") \cup Changed("mac2name") \subseteq macs
                /\ Changed("mac") \cup Changed("ip2name") \subseteq ips

\* A dnsmasq read failed after its first line and the record of that line is
\* in the maps, which differ from what they were.
C10_Witness ==
    /\ FailedReread
    /\ lastCall.cause = "read"
    /\ lastCall.lines >= 1
    /\ Maps(dhcp) # lastCall.before
    /\ Changed("ip") # {}

(***************************************************************************)
(* Properties of the lease readers                                         *)
(***************************************************************************)
\* The part of s before its first ch (s itself when it has none).
BeforeFirst(s, ch) ==
    LET at == {i \in 1..Len(s) : s[i] = ch}
    IN  IF at = {} THEN s ELSE SubSeq(s, 1, MinOf(at) - 1)
Has(s, ch) == \E i \in 1..Len(s) : s[i] = ch

FirstLabel(name) == BeforeFirst(name, ".")
StrippedIP(ip) == BeforeFirst(ip, "%")

\* A record was just read, and its MAC and its IP are valid.
RecordRead == lastCall.op = "record"
ValidRecordRead ==
    /\ RecordRead
    /\ ParseMAC(lastCall.rec.mac)
    /\ ParseIP(StrippedIP(lastCall.rec.ip))

NamesUnchanged ==
    /\ Maps(dhcp).mac2name = lastCall.before.mac2name
    /\ Maps(dhcp).ip2name = lastCall.before.ip2name

\* C11: a record with a valid MAC, a valid IP and a hostname with a dot is
\* stored, in either format, with the first label of the hostname, by IP and
\* by MAC alike.
C11_FirstLabelStored ==
    (ValidRecordRead /\ Has(lastCall.rec.name, ".")) =>
        /\ dhcpLookupHostnameByIP(dhcp, StrippedIP(lastCall.rec.ip))
                = FirstLabel(lastCall.rec.name)
        /\ dhcpLookupHostnameByMac(dhcp, lastCall.rec.mac)
                = FirstLabel(lastCall.rec.name)

\* The same for the dnsmasq reader alone.
C11_FirstLabelStoredByDnsmasq ==
    lastCall.op = "record" /\ lastCall.format = Dnsmasq => C11_FirstLabelStored

\* C12: a record whose MAC does not parse adds no entry keyed by its MAC or
\* by the empty string to the mac->ip and mac->name maps, in either format,
\* and LookupMac of its IP does not return its MAC.
C12_BadMacStoresNoMac ==
    (RecordRead /\ lastCall.rec.mac # Empty /\ ~ParseMAC(lastCall.rec.mac)) =>
        /\ (Changed("ip") \cup Changed("mac2name")) \cap {lastCall.rec.mac, Empty} = {}
        /\ dhcpLookupMac(dhcp, StrippedIP(lastCall.rec.ip)) # lastCall.rec.mac

\* The same for the dnsmasq reader alone.
C12_BadMacStoresNoMacByDnsmasq ==
    lastCall.op = "record" /\ lastCall.format = Dnsmasq => C12_BadMacStoresNoMac

\* C13: a record whose hostname is "*" leaves the mac->name and ip->name maps
\* as they were, in either format, and its IP and MAC, when valid, resolve to
\* each other.
C13_StarStoresNoHostname ==
    (RecordRead /\ lastCall.rec.name = <<"*">>) =>
        /\ NamesUnchanged
        /\ ValidRecordRead =>
            /\ dhcpLookupMac(dhcp, StrippedIP(lastCall.rec.ip)) = lastCall.rec.mac
            /\ dhcpLookupIP(dhcp, lastCall.rec.mac) = StrippedIP(lastCall.rec.ip)

\* A valid record with hostname "*" was read into a table that holds names,
\* and its IP-MAC mapping is new.
C13_Witness ==
    /\ ValidRecordRead
    /\ lastCall.rec.name = <<"*">>
    /\ lastCall.rec.mac \in DOMAIN lastCall.before.mac2name
    /\ Changed("mac") # {}
    /\ Changed("ip") # {}

\* A dnsmasq line with a parseable MAC and an IP field <ip>%<iface>.
IfaceLineRead ==
    /\ ValidRecordRead
    /\ lastCall.format = Dnsmasq
    /\ Has(lastCall.rec.ip, "%")

\* C14 (as stated): such a line is stored under <ip>: LookupMac(<ip>) is its
\* MAC, LookupIP(<mac>) is <ip>, and the hostname of both is its fourth field.
C14_IfaceStrippedNameIsField ==
    IfaceLineRead =>
        /\ dhcpLookupMac(dhcp, StrippedIP(lastCall.rec.ip)) = lastCall.rec.mac
        /\ dhcpLookupIP(dhcp, lastCall.rec.mac) = StrippedIP(lastCall.rec.ip)
        /\ dhcpLookupHostnameByIP(dhcp, StrippedIP(lastCall.rec.ip)) = lastCall.rec.name
        /\ dhcpLookupHostnameByMac(dhcp, lastCall.rec.mac) = lastCall.rec.name

\* C14 (amended): such a line is stored under <ip>: LookupMac(<ip>) is its
\* MAC, LookupIP(<mac>) is <ip>; the hostname of both is the first label of
\* its fourth field, and no hostname is stored when that field is "*".
C14_IfaceStrippedNameIsFirstLabel ==
    IfaceLineRead =>
        /\ dhcpLookupMac(dhcp, StrippedIP(lastCall.rec.ip)) = lastCall.rec.mac
        /\ dhcpLookupIP(dhcp, lastCall.rec.mac) = StrippedIP(lastCall.rec.ip)
        /\ lastCall.rec.name # <<"*">> =>
            /\ dhcpLookupHostnameByIP(dhcp, StrippedIP(lastCall.rec.ip))
                    = FirstLabel(lastCall.rec.name)
            /\ dhcpLookupHostnameByMac(dhcp, lastCall.rec.mac)
                    = FirstLabel(lastCall.rec.name)
        /\ lastCall.rec.name = <<"*">> => NamesUnchanged

\* A line with an interface suffix and a dotted hostname was read.
C14_Witness ==
    /\ IfaceLineRead
    /\ Has(lastCall.rec.name, ".")
    /\ StrippedIP(lastCall.rec.ip) # lastCall.rec.ip
    /\ dhcpLookupMac(dhcp, StrippedIP(lastCall.rec.ip)) = lastCall.rec.mac
    /\ dhcpLookupHostnameByIP(dhcp, StrippedIP(lastCall.rec.ip)) # lastCall.rec.name

(***************************************************************************)
(* Properties of Table.init                                                *)
(***************************************************************************)
\* The settings enable source src.
EnabledSource(src) ==
    \/ src \in {Merlin, Vni} /\ (cfg.dhcp \/ cfg.arp)
    \/ src = Hosts /\ cfg.hosts
    \/ src = Dhcp /\ cfg.dhcp
    \/ src = Arp /\ cfg.arp
    \/ src = Ptr /\ cfg.ptr
    \/ src = Mdns /\ cfg.mdns

\* The sources of order that are enabled and did not fail, in that order.
Remaining(order) ==
    LET Keep(src) == EnabledSource(src) /\ src \notin table.failed
    IN  SelectSeq(order, Keep)

IpOrder == <<Dhcp, Arp>>
RefreshOrder == <<Merlin, Hosts, Arp, Ptr>>
Members(seq) == {seq[i] : i \in 1..Len(seq)}

\* What source src holds for a key, read off the dhcp maps or the source's
\* table whether or not the source is registered.
Held(src, kind, key) ==
    IF src = Dhcp
    THEN Load(CASE kind = "ip" -> dhcp.ip [] kind = "mac" -> dhcp.mac
                [] kind = "ip2name" -> dhcp.ip2name [] OTHER -> dhcp.mac2name, key)
    ELSE LET hits == {x \in facts : x[1] = src /\ x[2] = kind /\ x[3] = key}
         IN  IF hits = {} THEN Empty ELSE (CHOOSE x \in hits : TRUE)[4]
HeldName(src, ip, mac) ==
    IF Held(src, "ip2name", ip) # Empty THEN Held(src, "ip2name", ip)
    ELSE Held(src, "mac2name", mac)

\* The first non-empty Answer(src) over the sources of order.
FirstHeld(order, Answer(_)) ==
    LET holders == {i \in 1..Len(order) : Answer(order[i]) # Empty}
    IN  IF holders = {} THEN Empty ELSE Answer(order[MinOf(holders)])

\* C15: a source whose initialisation failed during Table.init is in none of
\* the resolver and refresher lists, every other enabled source is
\* registered at its position, and the lookups return what the remaining
\* sources hold.
C15_FailedSourceExcluded ==
    (table.inited /\ ~cfg.customClientID /\ table.failed # {}) =>
        /\ \A src \in table.failed :
                src \notin Members(table.ipResolvers) \cup Members(table.macResolvers)
                        \cup Members(table.hostnameResolvers)
                        \cup Members(table.refreshers)
        /\ table.hostnameResolvers = Remaining(OrderAsRegistered)
        /\ table.ipResolvers = Remaining(IpOrder)
        /\ table.macResolvers = Remaining(IpOrder)
        /\ table.refreshers = Remaining(RefreshOrder)
        /\ lastCall.op = "LookupIP" =>
                LET Answer(src) == Held(src, "ip", lastCall.mac)
                IN  lastCall.res = FirstHeld(Remaining(IpOrder), Answer)
        /\ lastCall.op = "LookupMac" =>
                LET Answer(src) == Held(src, "mac", lastCall.ip)
                IN  lastCall.res = FirstHeld(Remaining(IpOrder), Answer)
        /\ lastCall.op = "LookupHostname" =>
                LET Answer(src) == HeldName(src, lastCall.ip, lastCall.mac)
                IN  lastCall.res = FirstHeld(Remaining(OrderAsRegistered), Answer)

\* The source that failed holds a name for the query and the lookup returned
\* the name a remaining source holds.
C15_Witness ==
    /\ table.inited /\ ~cfg.customClientID
    /\ lastCall.op = "LookupHostname"
    /\ lastCall.res # Empty
    /\ \E src \in table.failed :
        /\ HeldName(src, lastCall.ip, lastCall.mac) # Empty
        /\ HeldName(src, lastCall.ip, lastCall.mac) # lastCall.res

(***************************************************************************)
(* Properties of Table.RefreshLoop                                         *)
(***************************************************************************)
\* Every registered refresher was refreshed, in order, for the last tick the
\* loop has finished handling.
TickRefreshesAll ==
    (rlPc \in {"select", "returned"} /\ rlIdx > 0) => rlDone = table.refreshers

\* t.quitCh is closed once at most, and is closed when the loop has returned.
QuitClosedOnce ==
    /\ quitClosed <= 1
    /\ rlPc = "returned" => quitClosed = 1

\* C16: RefreshLoop refreshes every registered refresher on each tick; once
\* stop is signalled it eventually returns, having closed the quit channel
\* exactly once, and it starts no refresh after it has taken the stop case.
C16_RefreshLoopStops ==
    /\ [](TickRefreshesAll /\ QuitClosedOnce)
    /\ [][rlPc = "returned" => (rlPc' = "returned" /\ rlDone' = rlDone)]_vars
    /\ (stop ~> rlPc = "returned")

\* The loop has returned on stop after refreshing at least two refreshers for
\* a tick.
C16_Witness ==
    /\ rlPc = "returned"
    /\ stop
    /\ quitClosed = 1
    /\ Len(table.refreshers) >= 2
    /\ rlDone = table.refreshers


(***************************************************************************)
(* Properties of the DoH / DoH3 resolver                                   *)
(***************************************************************************)
\* The Resolve call that returned last was made on upstream uc.
Resolved == lastResolve.op = "resolve"
ResolvedUpstream == upstreams[lastResolve.u]

\* The call built its request and handed it to addHeader (line 109).
RequestBuilt == Resolved /\ lastResolve.outcome \notin {"packErr", "requestErr"}

\* The ClientInfo field the header name stands for, "" when the context
\* carries no ClientInfo.
FieldFor(name) ==
    IF lastResolve.ctx.kind # "ci" THEN ""
    ELSE CASE name = dohMacHeader -> lastResolve.ctx.Mac
           [] name = dohIPHeader -> lastResolve.ctx.IP
           [] OTHER -> lastResolve.ctx.Hostname

\* C17: a request built for an upstream whose SendClientInfo is true always
\* has the x-cd-os header, and has each of x-cd-mac, x-cd-ip, x-cd-host
\* exactly when the context carries a ClientInfo with that field non-empty,
\* the header's value being the field.
C17_ClientInfoHeaders ==
    (RequestBuilt /\ ResolvedUpstream.SendClientInfo) =>
        LET h == lastResolve.request.header
        IN  /\ HeaderHas(h, dohOsHeader)
            /\ HeaderGet(h, dohOsHeader) = dohOsHeaderValue(platform)
            /\ \A name \in {dohMacHeader, dohIPHeader, dohHostHeader} :
                  /\ HeaderHas(h, name) <=> FieldFor(name) # ""
                  /\ HeaderHas(h, name) => HeaderGet(h, name) = FieldFor(name)

C17_Witness ==
    /\ RequestBuilt /\ ResolvedUpstream.SendClientInfo
    /\ lastResolve.request.sent
    /\ lastResolve.ctx.kind = "ci" /\ lastResolve.ctx.Mac # ""
    /\ lastResolve.ctx.IP = "" /\ lastResolve.ctx.Hostname # ""
    /\ HeaderHas(lastResolve.request.header, dohMacHeader)
    /\ ~HeaderHas(lastResolve.request.header, dohIPHeader)

\* The call reached c.Do on a DoH3 upstream and c.Do returned an error.
Doh3TransportError ==
    /\ Resolved /\ ResolvedUpstream.Type = "doh3"
    /\ lastResolve.request.sent /\ lastResolve.outcome = "doErr"

\* The transports of the upstream as the call left them.
TransportsLeft == transports[lastResolve.u]

\* C18: a DoH3 request that fails in c.Do has its round-tripper closed when
\* Resolve returns the error, and a call that finds the round-tripper closed
\* works on a fresh one; no other call closes a transport: not a successful
\* exchange, not a status other than 200, not a plain DoH upstream.
C18_ClosedOnTransportError ==
    /\ Doh3TransportError =>
          /\ lastResolve.closed /\ TransportsLeft.h3 = "closed"
          /\ lastResolve.err # "" /\ ~lastResolve.answer
    /\ (Resolved /\ ~Doh3TransportError) =>
          /\ ~lastResolve.closed
          /\ (lastResolve.request.sent /\ ResolvedUpstream.Type = "doh3")
                => TransportsLeft.h3 = "open"
    /\ \A i \in 1..Len(transports) : transports[i].h1 = "open"

C18_Witness ==
    /\ Resolved /\ ResolvedUpstream.Type = "doh3"
    /\ lastResolve.before.h3 = "closed"
    /\ lastResolve.outcome = "doErr" /\ lastResolve.closed
    /\ \E i \in 1..Len(upstreams) : upstreams[i].Type = "doh"

\* The call was made on a doh3 upstream without an HTTP/3 round-tripper, and
\* a request was created for it.
Doh3Unavailable ==
    /\ RequestBuilt /\ ResolvedUpstream.Type = "doh3"
    /\ lastResolve.before.h3 = "none"

Got == lastGet.op = "get"

\* The most recent Add with the key of the Get has not expired.
AddedUnexpired ==
    /\ lastGet.key \in DOMAIN added
    /\ added[lastGet.key].Expire > lastGet.now

\* C20 as stated: Get returns the value of the most recent Add with exactly
\* its key when that value's expiry is later than now, and nothing otherwise.
C20_GetReturnsLastAdd ==
    Got => IF AddedUnexpired
           THEN lastGet.hit /\ lastGet.value = added[lastGet.key]
           ELSE ~lastGet.hit

\* C20: Get returns nothing or the value of the most recent Add with exactly
\* its key, and then only when that value's expiry is later than now; it
\* returns that value whenever the entry is still cached, which an Add of
\* other keys beyond the capacity may have ended.
C20_GetReturnsLastAddIfCached ==
    /\ Got =>
          /\ lastGet.hit => (AddedUnexpired /\ lastGet.value = added[lastGet.key])
          /\ (lastGet.resident /\ AddedUnexpired) => lastGet.hit
          /\ ~lastGet.hit => lastGet.key \notin {cache[i].key : i \in 1..Len(cache)}
    /\ \A i \in 1..Len(cache) :
          cache[i].key \in DOMAIN added /\ cache[i].value = added[cache[i].key]

\* A hit for a question that was also added, with another answer, under the
\* other upstream.
C20_Witness ==
    /\ Got /\ lastGet.hit
    /\ \E k \in DOMAIN added :
          /\ k.Name = lastGet.key.Name /\ k.Qtype = lastGet.key.Qtype
          /\ k.Upstream # lastGet.key.Upstream
          /\ added[k].Msg # lastGet.value.Msg
          /\ added[k].Expire > lastGet.now


(***************************************************************************)
(* Properties of the locking of the loop table                             *)
(***************************************************************************)
\* The range loop of checkDnsLoop (line 66) takes its next key from p.loop.
RangeReadsLoop == ckPc = "range" /\ ckTodo' # ckTodo

\* The goroutine of checkDnsLoop holds loopMu.
CheckHoldsLoopMu == loopMu = "check"

\* C27: every read and write of the loop table is made with loopMu held, the
\* iteration of checkDnsLoop over the table included, so that no step of the
\* iteration runs without the mutex or while detectLoop holds it.
C27_LoopTableUnderLoopMu == [][RangeReadsLoop => CheckHoldsLoopMu]_vars


(***************************************************************************)
(* Properties of self-discovery                                            *)
(***************************************************************************)
\* addSelf has run on the dhcp source and found the hostname.
AddSelfRan ==
    /\ table.inited
    /\ ~host.hostnameErr
    /\ cfg.customClientID \/ (cfg.dhcp /\ dhcp.watcher)

\* The <<mac, ip>> pairs of the interface walk, in the order it meets them.
RECURSIVE WalkOf(_, _)
WalkOf(ifaces, i) ==
    IF i > Len(ifaces) THEN <<>>
    ELSE (IF ifaces[i].mac = Empty THEN <<>>
          ELSE [k \in 1..Len(SelectSeq(ifaces[i].addrs, LAMBDA a : a.ipnet)) |->
                  <<ifaces[i].mac, SelectSeq(ifaces[i].addrs, LAMBDA a : a.ipnet)[k].ip>>])
         \o WalkOf(ifaces, i + 1)

Walk == WalkOf(host.ifaces, 1)

\* selfIP is configured and is an address the walk meets.
SelfIPMatched ==
    /\ cfg.selfIP # Empty
    /\ \E k \in 1..Len(Walk) : Walk[k][2] = cfg.selfIP

MatchAt == CHOOSE k \in 1..Len(Walk) : Walk[k][2] = cfg.selfIP

\* After the match the walk adds nothing.
WalkStopsAtMatch ==
    \A k \in (MatchAt + 1)..Len(Walk) :
        /\ Walk[k][2] \notin DOMAIN dhcp.mac
        /\ Walk[k][2] \notin DOMAIN dhcp.ip2name

\* The hostname is recorded for the loopback addresses and for selfIP.
SelfNamesRecorded ==
    \A ip \in {Loopback4, Loopback6, cfg.selfIP} :
        Load(dhcp.ip2name, ip) = normalizeHostname(host.hostname)

\* C28: when selfIP is an address of a local interface, the interface walk
\* adds no address it meets after the match, the MAC recorded for 127.0.0.1
\* and for ::1 is the MAC of the interface that owns selfIP, and the host's
\* normalised hostname is recorded for 127.0.0.1, ::1 and selfIP.
C28_SelfIPStopsWalk ==
    (AddSelfRan /\ SelfIPMatched) =>
        /\ WalkStopsAtMatch
        /\ Load(dhcp.mac, Loopback4) = Walk[MatchAt][1]
        /\ Load(dhcp.mac, Loopback6) = Walk[MatchAt][1]
        /\ SelfNamesRecorded

\* What does hold of the loopback addresses: the one of the family of selfIP
\* has the MAC of the interface that owns selfIP.
C28_SelfIPStopsWalkOwnFamily ==
    (AddSelfRan /\ SelfIPMatched) =>
        /\ WalkStopsAtMatch
        /\ Load(dhcp.mac, IF To4(cfg.selfIP) THEN Loopback4 ELSE Loopback6)
              = Walk[MatchAt][1]
        /\ SelfNamesRecorded

\* C30: with a custom client id in the UID, Table.init registers the
\* self-discovery dhcp source as the only IP, MAC and hostname resolver,
\* creates no other source, registers no refresher and starts no file
\* watcher, whatever the discover_* settings are.
C30_ClientIDOnlySelfDiscovery ==
    (table.inited /\ cfg.customClientID) =>
        /\ table.ipResolvers = <<Dhcp>>
        /\ table.macResolvers = <<Dhcp>>
        /\ table.hostnameResolvers = <<Dhcp>>
        /\ table.refreshers = <<>>
        /\ table.created = {Dhcp}
        /\ table.watchers = {}
        /\ ~dhcp.watcher /\ dhcp.watched = {}
        /\ dhcp.selfIP = cfg.selfIP
        /\ clientInfoFiles = DefaultRegistry

C30_Witness ==
    /\ table.inited /\ cfg.customClientID
    /\ cfg.dhcp /\ cfg.arp /\ cfg.ptr /\ cfg.mdns /\ cfg.hosts
    /\ Load(dhcp.ip2name, Loopback4) # Empty


(***************************************************************************)
(* Properties of the PTR source in ListClients                             *)
(***************************************************************************)
\* ListClients returned its clients.
Listed == lastCall.op = "ListClients" /\ ~lastCall.res.panic

\* The PTR source is a hostname resolver, the DNS server has a name for ip,
\* and the cache of the source has none.
PtrCacheMiss(ip) ==
    /\ \E i \in 1..Len(table.hostnameResolvers) : table.hostnameResolvers[i] = Ptr
    /\ lookupHostnameFromCache(table, facts, ip) = Empty
    /\ FactLookup(table, facts, Ptr, "remote", ip) # Empty

\* C29: ListClients takes the names of the PTR source from its cache only: an
\* IP the cache has no name for gets no name and no source tag from the PTR
\* source, even when the DNS server would resolve it, and a name the cache
\* has is the only name the PTR source contributes.
C29_PtrFromCacheOnly ==
    Listed =>
        \A ip \in DOMAIN lastCall.res.clients :
            LET c == lastCall.res.clients[ip]
            IN  /\ PtrCacheMiss(ip) =>
                      /\ Ptr \notin c.Source
                      /\ c.Hostname # FactLookup(table, facts, Ptr, "remote", ip)
                /\ (Ptr \in c.Source /\ ~ListedBy(Ptr, ip)) =>
                      lookupHostnameFromCache(table, facts, ip) # Empty

\* A client that no source names, for an IP the DNS server would resolve.
C29_Witness ==
    /\ Listed
    /\ \E ip \in DOMAIN lastCall.res.clients :
          /\ PtrCacheMiss(ip)
          /\ lastCall.res.clients[ip].Hostname = Empty


(***************************************************************************)
(* Properties of the proxy dispatcher                                      *)
(***************************************************************************)
\* The upstream at position i was tried: its cache entry was probed.
Tried(i) == pxTrace[i].Did # "skip"

\* The upstream at position i gave an answer, from the cache or the resolver.
Answered(i) == pxTrace[i].Did \in {"hit", "resolved"}

\* C21: the dispatcher walks the policy's upstream list in order and returns
\* the result of the first upstream that yields a cache hit or a successful
\* resolve; an upstream is tried only after every upstream tried before it has
\* failed; when no upstream has answered the response is SERVFAIL with the ID
\* of the query.
C21_FirstAnsweringUpstreamWins ==
    /\ Len(pxTrace) <= Len(pxList)
    /\ \A i \in 1..Len(pxTrace) : pxTrace[i].Upstream = pxList[i]
    /\ \A i, j \in 1..Len(pxTrace) :
          (i < j /\ Tried(i) /\ Tried(j)) => pxTrace[i].Did = "failed"
    /\ \A i \in 1..Len(pxTrace) : Answered(i) => i = Len(pxTrace) /\ pxPc = "done"
    /\ pxPc = "done" =>
          /\ pxResp.Id = pxMsg.Id
          /\ IF \E i \in 1..Len(pxTrace) : Answered(i)
             THEN /\ pxResp.Upstream = pxList[Len(pxTrace)]
                  /\ pxResp.Rcode = AnswerOf(pxList[Len(pxTrace)])
                  /\ pxResp.Via = (IF pxTrace[Len(pxTrace)].Did = "hit"
                                   THEN "cache" ELSE "resolver")
             ELSE /\ Len(pxTrace) = Len(pxList)
                  /\ pxResp.Rcode = "SERVFAIL"

\* The second upstream answers after the first one failed, and a walk over two
\* failing upstreams ends in SERVFAIL.
C21_Witness ==
    /\ pxPc = "done"
    /\ Len(pxTrace) = 2
    /\ pxTrace[1].Did = "failed"
    /\ pxTrace[2].Did = "hit"
    /\ pxResp.Id = "id2"

\* Every upstream of a list of two has failed.
C21_WitnessServfail ==
    /\ pxPc = "done"
    /\ Len(pxTrace) = 2
    /\ \A i \in 1..2 : pxTrace[i].Did = "failed"
    /\ pxResp.Rcode = "SERVFAIL"


(***************************************************************************)
(* Properties of the policy engine                                         *)
(***************************************************************************)
\* The name d is the text x, a dot and at least one more character after it.
ExtendsAtDot(d, x) == HasPrefix(d, x \o <<".">>) /\ Len(d) > Len(x) + 1

\* The name d is at least one character, a dot and the text x.
ProperSubdomain(d, x) == HasSuffix(d, <<".">> \o x) /\ Len(d) > Len(x) + 1

WildcardApplied == applied.op = "wildcardMatches"

\* C24: the * of a wildcard stands for one or more whole labels. "*.x" matches
\* exactly the proper subdomains of x (not x itself, not a name whose last
\* characters are those of x); "x.*" matches exactly the names that go on
\* after "x." (not x itself, not a name with another first label); "x.*.y"
\* matches exactly the names that start with "x.", end with ".y" and have at
\* least one label in between (a.*.b matches a.x.b and a.x.y.b, not a.b).
C24_StarIsOneOrMoreLabels ==
    WildcardApplied =>
        LET w == applied.wildcard
            d == applied.domain
            P == SplitDot(w)
        IN  /\ (Len(P) > 1 /\ StarsOf(P) = {1}) =>
                  (applied.match <=> ProperSubdomain(d, SubSeq(w, 3, Len(w))))
            /\ (Len(P) > 1 /\ StarsOf(P) = {Len(P)}) =>
                  (applied.match <=> ExtendsAtDot(d, SubSeq(w, 1, Len(w) - 2)))
            /\ (w = <<"a", ".", "*", ".", "b">>) =>
                  (applied.match <=>
                      /\ HasPrefix(d, <<"a", ".">>)
                      /\ HasSuffix(d, <<".", "b">>)
                      /\ Len(d) >= 5)
            /\ (w = <<"a", ".", "*", ".", "b">> /\ d = <<"a", ".", "x", ".", "b">>)
                  => applied.match
            /\ (w = <<"a", ".", "*", ".", "b">>
                  /\ d = <<"a", ".", "x", ".", "y", ".", "b">>) => applied.match
            /\ (w = <<"*", ".", "w", ".", "b">> /\ d = <<"w", ".", "b">>)
                  => ~applied.match
            /\ (w = <<"*", ".", "w", ".", "b">> /\ d = <<"w", "w", ".", "b">>)
                  => ~applied.match
            /\ (w = <<"s", ".", "*">> /\ d = <<"s">>) => ~applied.match
            /\ (w = <<"s", ".", "*">> /\ d = <<"s", "x", ".", "w", ".", "b">>)
                  => ~applied.match

\* a.*.b is matched against a.x.y.b, where the * stands for two labels.
C24_Witness ==
    /\ WildcardApplied
    /\ applied.wildcard = <<"a", ".", "*", ".", "b">>
    /\ applied.domain = <<"a", ".", "x", ".", "y", ".", "b">>
    /\ applied.match


UpstreamForApplied == applied.op = "upstreamFor"

\* The network of the sample configuration that holds an address, by its
\* first three octets; "" when none does.
NetworkOf(ip) ==
    IF SubSeq(ip, 1, 3) = <<192, 168, 0>> THEN "network.0"
    ELSE IF SubSeq(ip, 1, 3) = <<192, 168, 1>> THEN "network.1"
    ELSE ""

\* The targets listener 0's policy gives to a network.
TargetsOf(network) ==
    IF network = "network.0" THEN <<"upstream.1", "upstream.0">> ELSE <<"upstream.0">>

\* The domain is under .ru: the only domain rule of the policy, *.ru, matches.
UnderRu(domain) == ProperSubdomain(canonicalName(domain), <<"r", "u">>)

\* The same call made with the other kind of source address.
OtherNetwork(addr) ==
    [addr EXCEPT !.Network = IF addr.Network = "udp" THEN "tcp" ELSE "udp"]

C23_DomainRuleOverridesNetworkRule ==
    (UpstreamForApplied /\ applied.listener = "0"
        /\ NetworkOf(applied.addr.IP) # "" /\ UnderRu(applied.domain)) =>
        /\ applied.res.upstreams = <<"upstream.1">>
        /\ applied.res.matched
        /\ applied.res.log = [Policy |-> "My Policy",
                              Network |-> NetworkOf(applied.addr.IP),
                              Unenforced |-> TRUE,
                              Rule |-> WildcardRu,
                              Upstreams |-> <<"upstream.1">>]

\* 192.168.1.2 asks listener 0 for abc.ru.
C23_Witness ==
    /\ UpstreamForApplied
    /\ applied.listener = "0"
    /\ applied.addr.IP = <<192, 168, 1, 2>>
    /\ applied.domain = DomainRu
    /\ applied.res.log.Network = "network.1"
    /\ applied.res.log.Unenforced


(***************************************************************************)
(* Properties of UpstreamConfig                                            *)
(***************************************************************************)
\* C25: UpstreamConfig.Init is idempotent: an Init call on a configuration
\* that was initialised before changes no field (Endpoint with its default
\* port, Domain, BootstrapIP, IPStack, parsed URL, UID); the default port is
\* not appended a second time.
C25_InitIdempotent ==
    [][(inits >= 1 /\ inits' = inits + 1) => upc' = upc]_vars

\* "1.2.3.4" of a legacy upstream after two Init calls.
C25_Witness ==
    /\ inits = 2
    /\ upc.Type = "legacy"
    /\ upc.Endpoint = EndpointLegacy
    /\ upc.Domain = EndpointLegacyNoPort
    /\ upc.BootstrapIP = EndpointLegacyNoPort
    /\ upc.uid.endpoint = EndpointLegacy

\* The endpoints whose host is a cooperative provider's.
ControlDEndpoints ==
    { EndpointControlD, EndpointDot, EndpointDotNoPort,
      EndpointDotNoPort \o <<":", "8", "5", "3">>,
      EndpointDotNoPort \o <<":", "5", "3">> }

SendClientInfoApplied == applied.op = "UpstreamSendClientInfo"

\* C26: UpstreamSendClientInfo returns the configured SendClientInfo value
\* when one is set, whatever the endpoint; when none is set it returns true
\* exactly when the endpoint's host is a cooperative provider's.
C26_ExplicitSettingElseProvider ==
    SendClientInfoApplied =>
        /\ applied.uc.SendClientInfo = "true" => applied.res
        /\ applied.uc.SendClientInfo = "false" => ~applied.res
        /\ applied.uc.SendClientInfo = "unset" =>
              (applied.res <=> applied.uc.Endpoint \in ControlDEndpoints)

\* No setting, a provider's endpoint; and a setting that overrides it.
C26_Witness ==
    /\ SendClientInfoApplied
    /\ applied.uc.SendClientInfo = "unset"
    /\ applied.uc.Endpoint = EndpointControlD
    /\ applied.res


(***************************************************************************)
(* Properties of the lease readers: listed strings, blocks, map agreement  *)
(***************************************************************************)
\* C31: every string the dhcp source lists is a parseable IP address, after
\* any sequence of reads of lease records, records with an invalid IP field
\* included (so that ListClients can convert each of them).
C31_ListedStringsParse == \A s \in dhcpList(dhcp) : ParseIP(s)

\* An ISC dhcpd lease block was just read.
IscBlockRead == RecordRead /\ lastCall.format = IscDhcpd

\* C32: what the ISC dhcpd reader stores for a lease block comes from the
\* fields of that block only: the MAC stored for the block's IP is the
\* block's own MAC or none, and no entry keyed by another MAC is changed.
C32_BlockUsesOwnFields ==
    IscBlockRead =>
        /\ dhcpLookupMac(dhcp, StrippedIP(lastCall.rec.ip)) \in {lastCall.rec.mac, Empty}
        /\ Changed("ip") \subseteq {lastCall.rec.mac, Empty}
        /\ Changed("mac2name") \subseteq {lastCall.rec.mac, Empty}

(***************************************************************************)
(* Properties of the request header without client information             *)
(***************************************************************************)
\* The headers that tag a request with the client and its platform.
ClientInfoHeaders == {dohMacHeader, dohIPHeader, dohHostHeader, dohOsHeader}

\* C34: a request built for an upstream whose SendClientInfo is false has
\* none of the headers x-cd-mac, x-cd-ip, x-cd-host, x-cd-os, and its header
\* is the one built for any other call context: the ClientInfo of the
\* context has no influence on it.
C34_NoClientInfoWithoutSetting ==
    (RequestBuilt /\ ~ResolvedUpstream.SendClientInfo) =>
        LET h == lastResolve.request.header
        IN  /\ \A name \in ClientInfoHeaders : ~HeaderHas(h, name)
            /\ \A ctx \in Contexts : addHeader(ctx, NoHeader, FALSE, platform) = h

(***************************************************************************)
(* Properties of the maps of the dhcp source over re-reads                 *)
(***************************************************************************)
MapNames == {"mac2name", "ip2name", "ip", "mac"}

\* C36: no step removes a key from any of the four maps of the dhcp source,
\* and the handling of an event for a file that is gone leaves every entry
\* as it was: what was recorded once stays resolvable after its lease has
\* left the file and after the file was removed.
C36_KeySetsNeverShrink ==
    [][/\ \A m \in MapNames : DOMAIN Maps(dhcp)[m] \subseteq DOMAIN Maps(dhcp')[m]
       /\ (lastCall'.op = "event" /\ lastCall'.name \notin DOMAIN files)
              => Maps(dhcp') = Maps(dhcp)]_vars

\* The file f2 was rewritten without the lease of MacB and read again to its
\* end: the hostname recorded from its first contents is still resolved.
C36_Witness ==
    /\ lastCall.op = "event" /\ lastCall.name = "f2" /\ lastCall.cause = "nil"
    /\ "f2" \in DOMAIN files /\ files["f2"] = LeaseContents("f2")
    /\ lastCall.lines = Len(files["f2"])
    /\ dhcpLookupHostnameByMac(dhcp, MacB) = <<"g">>
    /\ dhcpLookupHostnameByMac(lastCall.before, MacB) = <<"g">>

\* An event for a file that was removed was handled, and the lease read from
\* it at initialisation is still resolved.
C36_WitnessRemoved ==
    /\ lastCall.op = "event" /\ lastCall.event = "Remove"
    /\ lastCall.name = "f1" /\ "f1" \notin DOMAIN files
    /\ dhcpLookupIP(dhcp, MacA) = IP1

\* The IPs and the MACs of lease records.
LeaseIPs == {StrippedIP(r.ip) : r \in IscLeaseRecords}
LeaseMacs == {r.mac : r \in IscLeaseRecords}

\* The mac->ip and ip->mac maps of d answer alike in both directions on the
\* IPs and the MACs of lease records.
MapsAgree(d) ==
    /\ \A ip \in LeaseIPs :
          dhcpLookupMac(d, ip) # Empty => dhcpLookupIP(d, dhcpLookupMac(d, ip)) = ip
    /\ \A mac \in LeaseMacs :
          dhcpLookupIP(d, mac) # Empty => dhcpLookupMac(d, dhcpLookupIP(d, mac)) = mac

\* C35: after any sequence of reads of lease records the mac->ip and ip->mac
\* maps of the dhcp source are mutually consistent: an IP whose MAC is m is
\* the IP of m, and a MAC whose IP is i is the MAC of i, also after a MAC has
\* moved to another IP or an IP was given to another MAC.
C35_MacAndIPMapsAgree == RecordRead => MapsAgree(dhcp)

\* Two dnsmasq lines were read, the second with the MAC of the first and
\* another IP, and the first IP still answers with that MAC.
C35_MacMoved ==
    /\ RecordRead /\ lastCall.format = Dnsmasq /\ lastCall.n = 2
    /\ lastCall.rec = LeaseRecord(MacA, IP2, <<"d">>)
    /\ dhcpLookupMac(lastCall.before, IP1) = MacA
    /\ dhcpLookupMac(dhcp, IP1) = MacA
    /\ dhcpLookupIP(dhcp, MacA) = IP2

(***************************************************************************)
(* Registering a lease file with the table                                 *)
(***************************************************************************)
\* Table.AddLeaseFile: the registry after the call.
tableAddLeaseFile(c, reg, name, format) ==
    IF ~c.dhcp THEN reg ELSE Store(reg, name, format)

\* The lease file a caller registers, and its format.
AddedFile == "f3"
AddedFormat == Dnsmasq

\* The table before Table.Init, the file to register on the disk or not yet,
\* in the lease directory the watcher watches or elsewhere.
InitLease ==
    /\ table = NewTable
    /\ dhcp = NewDhcp(Empty)
    /\ host \in {HostA, [HostA EXCEPT !.leaseDir = FALSE]}
    /\ files \in {EmptyMap, (AddedFile :> LeaseContents(AddedFile))}
    /\ clientInfoFiles = DefaultRegistry
    /\ facts = {}
    /\ cfg \in Cfgs
    /\ lastCall = NoCall
    /\ events = <<>>

\* A caller registers the file.
AddLeaseFile ==
    /\ ~crashed
    /\ clientInfoFiles' = tableAddLeaseFile(cfg, clientInfoFiles, AddedFile, AddedFormat)
    /\ lastCall' = [op |-> "AddLeaseFile", name |-> AddedFile, inited |-> table.inited,
                    before |-> clientInfoFiles]
    /\ UNCHANGED <<dhcp, host, files, facts, cfg, table>>
    /\ UNCHANGED <<loopVars, dispVars, watchVars, refreshVars, dohVars, cacheVars, proxyVars, cfgVars>>

\* The write of Table.AddLeaseFile to the registry, which no lock guards,
\* meets the read of the watcher goroutine that is handling an event: the
\* runtime may abort the process (concurrent map read and map write).
AddLeaseFileRace ==
    /\ ~crashed
    /\ cfg.dhcp /\ dhcp.watcher /\ events # <<>>
    /\ crashed' = TRUE
    /\ UNCHANGED <<loop, loopMu, ckPc, ckTodo, ckCur, cycles, dtPc, dtMsg, dtUid, dtProbe,
                   observed>>
    /\ UNCHANGED <<dispVars, tableVars, watchVars, refreshVars, dohVars, cacheVars, proxyVars, cfgVars>>

InitA == InitLoop /\ InitDisp /\ InitLease /\ IdleRefresh /\ IdleDoh /\ IdleCache /\ IdleProxy /\ IdleCfg

NextLease ==
    \/ TableInit
    \/ AddLeaseFile
    \/ AddLeaseFileRace
    \/ FsWrite
    \/ WatchEvent

SpecLease == InitA /\ [][NextLease]_vars

\* Table.Init is called, and the watcher goroutine handles the events it
\* receives; nothing obliges a process to touch a lease file.
FairLease ==
    /\ WF_vars(TableInit)
    /\ WF_vars(WatchEvent)

SpecLeaseFair == SpecLease /\ FairLease

\* Table.AddLeaseFile has registered the file, which is on the disk.
AddedFileRegistered ==
    /\ ~crashed
    /\ AddedFile \in DOMAIN clientInfoFiles
    /\ AddedFile \in DOMAIN files

\* Every valid record of the file is resolved by Table.LookupIP and
\* Table.LookupMac, and the file is watched.
AddedFileResolvable ==
    AddedFile \in DOMAIN files =>
        /\ AddedFile \in dhcp.watched
        /\ LET recs == RecordsOf(files[AddedFile], AddedFormat)
           IN  \A k \in 1..Len(recs) :
                 (ValidRecord(recs[k]) /\ InForce(recs, k)) =>
                    /\ tableLookupIP(table, dhcp, facts, recs[k].mac, 1) = recs[k].ip
                    /\ tableLookupMac(table, dhcp, facts, recs[k].ip, 1) = recs[k].mac

\* C33: a lease file registered through Table.AddLeaseFile, before or after
\* Table.Init, is read and watched by the dhcp source, so that its valid
\* records are eventually resolved by LookupIP and LookupMac; and with DHCP
\* discovery disabled AddLeaseFile changes nothing.
C33_AddedFileIsReadAndWatched ==
    /\ [][(lastCall'.op = "AddLeaseFile" /\ ~cfg.dhcp)
             => UNCHANGED <<dhcp, clientInfoFiles, table, events>>]_vars
    /\ AddedFileRegistered ~> (crashed \/ AddedFileResolvable)

\* The file was registered before Table.Init, which has read it and put it
\* under watch.
C33_RegisteredBeforeInit ==
    /\ table.inited /\ AddedFile \in DOMAIN clientInfoFiles
    /\ AddedFile \in DOMAIN files /\ AddedFileResolvable

\* The file was registered after Table.Init: it is neither read nor watched.
C33_RegisteredAfterInit ==
    /\ lastCall.op = "AddLeaseFile" /\ lastCall.inited
    /\ AddedFile \in DOMAIN clientInfoFiles /\ AddedFile \notin DOMAIN lastCall.before
    /\ AddedFile \in DOMAIN files /\ dhcp.watcher
    /\ AddedFile \notin dhcp.watched /\ ~AddedFileResolvable

====
